---- MODULE Spec2Model ----
(***************************************************************************)
(* State-machine model of the music proxy server (src/spotify_api.js,      *)
(* the Express application that starts at line 145): the token cache and   *)
(* the client-credentials exchange, the session store with the user-agent  *)
(* middleware, the provider OAuth routes, the local accounts and the       *)
(* comments resource.  Requests interleave at their awaits: a handler with *)
(* an await is a Begin action and an End action with the request held in   *)
(* `reqs` in between; a handler without an await is one action.            *)
(***************************************************************************)
EXTENDS Integers, Sequences, FiniteSets, Bags, TLC

VARIABLES
    now,        \* Date.now(), in milliseconds
    tokenFile,  \* content of .cache/token.json
    calls,      \* getSpotifyAccessToken callers waiting for the provider
    exchanges,  \* client-credentials exchanges started so far
    overlap,    \* history: some exchange started while another was in flight
    sessions,   \* the session store: session id -> stored session
    users,      \* the users table, in id order
    comments,   \* the comments table: the set of rows
    nextCid,    \* the comments table's AUTOINCREMENT counter
    reqs,       \* requests suspended at an await (a bag)
    raced,      \* history: a request was suspended while another one was
    cacheFile,  \* content of .cache/artists.json
    refresh,    \* refreshCache callers waiting for getTopArtists
    fetches,    \* getTopArtists calls started so far
    outage,     \* history: a provider call or a cache write has failed
    herd,       \* history: a refresh started while another was in flight
    last        \* the step just taken: the request and its response

vars == <<now, tokenFile, calls, exchanges, overlap, sessions, users,
          comments, nextCid, reqs, raced, cacheFile, refresh, fetches, outage,
          herd, last>>

tokenVars == <<tokenFile, calls, exchanges, overlap>>
dbVars == <<users, comments, nextCid>>
reqVars == <<reqs, raced>>
cacheVars == <<cacheFile, refresh, fetches, outage, herd>>

(***************************************************************************)
(* Bounds of the model.                                                    *)
(***************************************************************************)
MaxTicks == 4
MaxExchanges == 3
MaxInflight == 2
MaxComments == 6
MaxSleeps == 1
MaxSeconds == 1
MaxFetches == 2

(***************************************************************************)
(* Time.  One Tick is one second of wall-clock time.                       *)
(***************************************************************************)
MsPerSecond == 1000

(***************************************************************************)
(* The step record: what the step just taken was, and what it answered.    *)
(***************************************************************************)
NoUser == [id |-> 0, username |-> <<>>]

NoStep ==
    [route |-> "init", sid |-> "none", ua |-> "none", ip |-> "none",
     arg |-> 0, qstate |-> "none", status |-> 0, error |-> "none", why |-> "none",
     token |-> 0, list |-> {}, artists |-> <<>>, source |-> "none",
     cached |-> FALSE, cleared |-> FALSE, fetched |-> <<>>]

\* A step of the server itself (no HTTP request): a token call, a timer.
Step(route, sid, status, error, why, token) ==
    [route |-> route, sid |-> sid, ua |-> "none", ip |-> "none", arg |-> 0,
     qstate |-> "none", status |-> status, error |-> error, why |-> why, token |-> token,
     list |-> {}, artists |-> <<>>, source |-> "none", cached |-> FALSE,
     cleared |-> FALSE, fetched |-> <<>>]

\* A step of a request: the route, the session and user-agent it came with,
\* the response's status and error (0: no response yet), and which branch
\* of the handler produced it.  `fetched` is the list getTopArtists
\* delivered in this step, if it delivered one.
Http(route, sid, ua, status, error, why) ==
    [route |-> route, sid |-> sid, ua |-> ua, ip |-> "none", arg |-> 0,
     qstate |-> "none", status |-> status, error |-> error, why |-> why, token |-> 0,
     list |-> {}, artists |-> <<>>, source |-> "none", cached |-> FALSE,
     cleared |-> FALSE, fetched |-> <<>>]

\* The same, of a callback request with the query parameter `state`.
HttpState(route, sid, ua, state, status, error, why) ==
    [Http(route, sid, ua, status, error, why) EXCEPT !.qstate = state]

\* The same, of a request for the comment `id`.
HttpId(route, sid, ua, id, status, error, why) ==
    [Http(route, sid, ua, status, error, why) EXCEPT !.arg = id]

\* The same, of a request whose handler reads req.ip.
HttpFrom(route, sid, ua, ip, status, error, why) ==
    [Http(route, sid, ua, status, error, why) EXCEPT !.ip = ip]

Tick ==
    /\ now < MaxTicks * MsPerSecond
    /\ now' = now + MsPerSecond
    /\ last' = Step("tick", "none", 0, "none", "none", 0)
    /\ UNCHANGED <<cacheVars, tokenVars, sessions, dbVars, reqVars>>

(***************************************************************************)
(* TOKEN MANAGEMENT: .cache/token.json and the client-credentials grant.   *)
(* A token is the number of the exchange that produced it (0: no token).   *)
(***************************************************************************)
Callers == {"startup", "periodic", "request"}

ExpiresIn == {1, 2}   \* the provider's expires_in, in seconds

NoTokenFile == [exists |-> FALSE, parses |-> FALSE, token |-> 0, expiry |-> 0]

\* A token file that cannot be read, or whose content JSON.parse rejects.
BadTokenFile == [exists |-> TRUE, parses |-> FALSE, token |-> 0, expiry |-> 0]

NoToken == [token |-> 0, expiry |-> 0]

\* readTokenFromDisk: the file's content while it has not expired.
ReadTokenFromDisk ==
    IF tokenFile.exists /\ tokenFile.parses /\ tokenFile.expiry /= 0
       /\ now < tokenFile.expiry
    THEN [token |-> tokenFile.token, expiry |-> tokenFile.expiry]
    ELSE NoToken

\* writeTokenToDisk: the new content of the file; a failed write leaves it.
WriteTokenToDisk(token, expiresIn, writeOk) ==
    IF writeOk
    THEN [exists |-> TRUE, parses |-> TRUE, token |-> token,
          expiry |-> now + expiresIn * MsPerSecond]
    ELSE tokenFile

\* A plausible slip: the cached token is handed out whatever its expiry.
CachedTokenIgnoringExpiry == tokenFile.token

\* getSpotifyAccessToken, lines 427-430: the token to return at once, or 0.
CachedToken ==
    LET cachedToken == ReadTokenFromDisk
    IN  IF cachedToken.token /= 0 /\ cachedToken.expiry /= 0
           /\ now < cachedToken.expiry
        THEN cachedToken.token
        ELSE 0

\* A plausible slip: the cache is never consulted.
GetTokenAlwaysExchanges(c) ==
    /\ calls[c] = 0
    /\ c = "startup" => last.route = "init"
    /\ exchanges < MaxExchanges
    /\ exchanges' = exchanges + 1
    /\ calls' = [calls EXCEPT ![c] = exchanges + 1]
    /\ overlap' = (overlap \/ \E d \in Callers : calls[d] /= 0)
    /\ last' = Step("getToken", c, 0, "none", "exchange", 0)
    /\ UNCHANGED <<cacheVars, now, tokenFile, sessions, dbVars, reqVars>>

\* getSpotifyAccessToken up to its await: a cache hit returns, a miss sends
\* the client-credentials request.
GetTokenCall(c) ==
    /\ calls[c] = 0
    /\ c = "startup" => last.route = "init"
    /\ IF CachedToken /= 0
       THEN /\ last' = Step("getToken", c, 0, "none", "cache", CachedToken)
            /\ UNCHANGED <<tokenVars>>
       ELSE /\ exchanges < MaxExchanges
            /\ exchanges' = exchanges + 1
            /\ calls' = [calls EXCEPT ![c] = exchanges + 1]
            /\ overlap' = (overlap \/ \E d \in Callers : calls[d] /= 0)
            /\ last' = Step("getToken", c, 0, "none", "exchange", 0)
            /\ UNCHANGED tokenFile
    /\ UNCHANGED <<cacheVars, now, sessions, dbVars, reqVars>>

\* The provider answers 200: the token is written to disk and resolved.
ExchangeOk(c, expiresIn, writeOk) ==
    /\ calls[c] /= 0
    /\ tokenFile' = WriteTokenToDisk(calls[c], expiresIn, writeOk)
    /\ calls' = [calls EXCEPT ![c] = 0]
    /\ last' = Step("exchange", c, 200, "none", "fresh", calls[c])
    /\ UNCHANGED <<cacheVars, now, exchanges, overlap, sessions, dbVars,
                   reqVars>>

\* The provider answers another status, or the connection fails: reject.
ExchangeFail(c) ==
    /\ calls[c] /= 0
    /\ calls' = [calls EXCEPT ![c] = 0]
    /\ last' = Step("exchange", c, 0, "Failed to get token", "rejected", 0)
    /\ UNCHANGED <<cacheVars, now, tokenFile, exchanges, overlap, sessions,
                   dbVars, reqVars>>

TokenInit ==
    /\ now = 0
    /\ tokenFile = NoTokenFile
    /\ calls = [c \in Callers |-> 0]
    /\ exchanges = 0
    /\ overlap = FALSE

(***************************************************************************)
(* Strings.  A string is the tuple of its characters; a request field that *)
(* is not a string (absent, a number, an object) is NotAString.            *)
(***************************************************************************)
Str(chars) == [isString |-> TRUE, chars |-> chars]

NotAString == [isString |-> FALSE, chars |-> <<>>]

LowerChar(c) ==
    CASE c = "A" -> "a"
      [] c = "B" -> "b"
      [] c = "Z" -> "z"
      [] OTHER -> c

\* String.prototype.toLowerCase
ToLowerCase(t) == [i \in 1..Len(t) |-> LowerChar(t[i])]

RECURSIVE TrimStart(_)
TrimStart(t) ==
    IF t /= <<>> /\ Head(t) = " " THEN TrimStart(Tail(t)) ELSE t

RECURSIVE TrimEnd(_)
TrimEnd(t) ==
    IF t /= <<>> /\ t[Len(t)] = " "
    THEN TrimEnd(SubSeq(t, 1, Len(t) - 1))
    ELSE t

\* String.prototype.trim
Trim(t) == TrimEnd(TrimStart(t))

(***************************************************************************)
(* Sessions (express-session, lines 189-203).  A request works on its own  *)
(* req.session, loaded from the store when the request arrives and written *)
(* back when the response ends if the handler changed it; an unchanged     *)
(* session of a new client is not stored (saveUninitialized: false).       *)
(***************************************************************************)
Sids == {"s1", "s2"}

NoSession ==
    [exists |-> FALSE, user |-> NoUser, ua |-> "none", oauthState |-> "none",
     spotifyToken |-> 0, refreshToken |-> 0, tokenExpiry |-> 0]

\* req.session as the request sees it.
Load(s) == sessions[s]

\* The store after the response of a request that loaded `loaded` and left
\* req.session as `sess`.
Save(s, loaded, sess) ==
    IF sess = loaded
    THEN sessions
    ELSE [sessions EXCEPT ![s] = [sess EXCEPT !.exists = TRUE]]

\* hashUA: sha256 of the user-agent header, injective on the headers used.
HashUA(ua) ==
    CASE ua = "Firefox" -> "sha256(Firefox)"
      [] ua = "Chrome" -> "sha256(Chrome)"
      [] OTHER -> "sha256()"

\* A plausible slip: the comparison of the middleware is dropped.
UAAlwaysPasses(s, ua) == TRUE

\* The user-agent middleware lets the request through (lines 208-211, 223).
UAPasses(s, ua) ==
    Load(s).ua = "none" \/ Load(s).ua = HashUA(ua)

Routes ==
    {"GET /auth/spotify", "GET /auth/spotify/callback",
     "POST /api/auth/register", "POST /api/auth/login",
     "POST /api/auth/logout", "POST /api/auth/spotify/logout",
     "GET /api/comments", "POST /api/comments", "DELETE /api/comments/:id"}

\* A plausible slip: the session is destroyed and res.clearCookie is left
\* out.
UAMismatchKeepsCookie(s, ua, route) ==
    /\ ~UAPasses(s, ua)
    /\ sessions' = [sessions EXCEPT ![s] = NoSession]
    /\ last' = Http(route, s, ua, 401, "SESSION_INVALID", "ua_mismatch")
    /\ UNCHANGED <<cacheVars, now, tokenVars, dbVars, reqVars>>

\* The user-agent middleware on a mismatch: req.session.destroy, the cookie
\* is cleared and 401 SESSION_INVALID is sent; next() is not called.
UAMismatch(s, ua, route) ==
    /\ ~UAPasses(s, ua)
    /\ sessions' = [sessions EXCEPT ![s] = NoSession]
    /\ last' = [Http(route, s, ua, 401, "SESSION_INVALID", "ua_mismatch")
                  EXCEPT !.cleared = TRUE]
    /\ UNCHANGED <<cacheVars, now, tokenVars, dbVars, reqVars>>

\* The session cookie's maxAge (line 200) has passed without a request:
\* the browser drops the cookie and the store drops the session.
SessionExpires(s) ==
    /\ sessions[s].exists
    /\ sessions' = [sessions EXCEPT ![s] = NoSession]
    /\ last' = Step("session_expired", s, 0, "none", "max_age", 0)
    /\ UNCHANGED <<cacheVars, now, tokenVars, dbVars, reqVars>>

\* A request suspended at an await.
Req(kind, s, ua, ip, username, password, code, state, sess) ==
    [kind |-> kind, sid |-> s, ua |-> ua, ip |-> ip, username |-> username,
     password |-> password, code |-> code, state |-> state, sess |-> sess]

Inflight == BagCardinality(reqs)

Suspend(r) ==
    /\ reqs' = reqs (+) SetToBag({r})
    /\ raced' = (raced \/ Inflight > 0)

Resume(r) ==
    /\ reqs' = reqs (-) SetToBag({r})
    /\ UNCHANGED raced

(***************************************************************************)
(* SPOTIFY OAUTH: GET /auth/spotify and GET /auth/spotify/callback.        *)
(* A query parameter that is absent is "none", as is an absent session     *)
(* field: both are `undefined` in the program.                             *)
(***************************************************************************)
OAuthStates == {"st1", "st2"}      \* values of crypto.randomBytes(16)

QueryStates == OAuthStates \cup {"none"}

Codes == {"valid_code", "bad_code"}

QueryErrors == {"none", "access_denied"}

\* The provider's answers to a code exchange it accepts.
TokenResponses ==
    {[access_token |-> 11, refresh_token |-> 21, expires_in |-> 1],
     [access_token |-> 12, refresh_token |-> 22, expires_in |-> 2]}

CallbackRoute == "GET /auth/spotify/callback"

\* GET /auth/spotify: a fresh state is stored and the browser is redirected.
AuthSpotify(s, ua, state) ==
    /\ UAPasses(s, ua)
    /\ sessions' = Save(s, Load(s), [Load(s) EXCEPT !.oauthState = state])
    /\ last' = Http("GET /auth/spotify", s, ua, 302, "none", "authorize")
    /\ UNCHANGED <<cacheVars, now, tokenVars, dbVars, reqVars>>

\* A plausible slip: the state comparison is dropped.
CallbackStateAlwaysMatches(state, sess) == TRUE

\* The callback's state check (line 857), TRUE when the request goes on.
CallbackStateMatches(state, sess) == state = sess.oauthState

\* GET /auth/spotify/callback up to its await.
CallbackBegin(s, ua, code, state, error) ==
    /\ UAPasses(s, ua)
    /\ IF error /= "none"
       THEN /\ last' = HttpState(CallbackRoute, s, ua, state, 302,
                                 "spotify_auth_failed", "provider_error")
            /\ UNCHANGED <<sessions, reqVars>>
       ELSE IF ~CallbackStateMatches(state, Load(s))
       THEN /\ last' = HttpState(CallbackRoute, s, ua, state, 302,
                                 "invalid_state", "state_mismatch")
            /\ UNCHANGED <<sessions, reqVars>>
       ELSE /\ Inflight < MaxInflight
            /\ Suspend(Req("callback", s, ua, "none", NotAString, NotAString,
                           code, state,
                           [Load(s) EXCEPT !.oauthState = "none"]))
            /\ last' = HttpState(CallbackRoute, s, ua, state, 0, "none",
                                 "exchanging")
            /\ UNCHANGED sessions
    /\ UNCHANGED <<cacheVars, now, tokenVars, dbVars>>

\* A plausible slip: the user-agent hash is not captured with the tokens.
CallbackOkWithoutUA(r, tokenData) ==
    /\ r \in BagToSet(reqs)
    /\ r.kind = "callback"
    /\ r.code = "valid_code"
    /\ Resume(r)
    /\ sessions' =
         Save(r.sid, [r.sess EXCEPT !.oauthState = r.state],
              [r.sess EXCEPT
                 !.spotifyToken = tokenData.access_token,
                 !.refreshToken = tokenData.refresh_token,
                 !.tokenExpiry = now + tokenData.expires_in * MsPerSecond])
    /\ last' = HttpState(CallbackRoute, r.sid, r.ua, r.state, 302, "none",
                         "auth_success")
    /\ UNCHANGED <<cacheVars, now, tokenVars, dbVars>>

\* The code exchange succeeds: the token bundle and the user-agent hash go
\* into the session.
CallbackOk(r, tokenData) ==
    /\ r \in BagToSet(reqs)
    /\ r.kind = "callback"
    /\ r.code = "valid_code"
    /\ Resume(r)
    /\ sessions' =
         Save(r.sid, [r.sess EXCEPT !.oauthState = r.state],
              [r.sess EXCEPT
                 !.spotifyToken = tokenData.access_token,
                 !.refreshToken = tokenData.refresh_token,
                 !.tokenExpiry = now + tokenData.expires_in * MsPerSecond,
                 !.ua = HashUA(r.ua)])
    /\ last' = HttpState(CallbackRoute, r.sid, r.ua, r.state, 302, "none",
                         "auth_success")
    /\ UNCHANGED <<cacheVars, now, tokenVars, dbVars>>

\* The code exchange fails (the provider refuses the code, or the network
\* fails): nothing but the consumed state changes.
CallbackFail(r) ==
    /\ r \in BagToSet(reqs)
    /\ r.kind = "callback"
    /\ Resume(r)
    /\ sessions' = Save(r.sid, [r.sess EXCEPT !.oauthState = r.state], r.sess)
    /\ last' = HttpState(CallbackRoute, r.sid, r.ua, r.state, 302,
                         "token_exchange_failed", "exchange_failed")
    /\ UNCHANGED <<cacheVars, now, tokenVars, dbVars>>

\* POST /api/auth/spotify/logout
SpotifyLogout(s, ua) ==
    /\ UAPasses(s, ua)
    /\ sessions' =
         Save(s, Load(s),
              [Load(s) EXCEPT !.spotifyToken = 0, !.refreshToken = 0,
                              !.tokenExpiry = 0])
    /\ last' = Http("POST /api/auth/spotify/logout", s, ua, 200, "none", "ok")
    /\ UNCHANGED <<cacheVars, now, tokenVars, dbVars, reqVars>>

\* A plausible slip: the logout of the Spotify-only server (src/server.js),
\* which destroys the whole session.
LogoutDestroysSession(s, ua) ==
    /\ UAPasses(s, ua)
    /\ sessions' = [sessions EXCEPT ![s] = NoSession]
    /\ last' = [Http("POST /api/auth/logout", s, ua, 200, "none", "ok")
                  EXCEPT !.cleared = TRUE]
    /\ UNCHANGED <<cacheVars, now, tokenVars, dbVars, reqVars>>

\* POST /api/auth/logout
Logout(s, ua) ==
    /\ UAPasses(s, ua)
    /\ sessions' = Save(s, Load(s), [Load(s) EXCEPT !.user = NoUser])
    /\ last' = Http("POST /api/auth/logout", s, ua, 200, "none", "ok")
    /\ UNCHANGED <<cacheVars, now, tokenVars, dbVars, reqVars>>

(***************************************************************************)
(* LOCAL ACCOUNTS: the users table, POST /api/auth/register and            *)
(* POST /api/auth/login.  A row's id is its place in `users`: ids are      *)
(* AUTOINCREMENT and no statement deletes a user.                          *)
(***************************************************************************)
IpCap == 3
MinUsernameLength == 3
MinPasswordLength == 8

IPs == {"ip1", "ip2"}

\* argon2.hash and argon2.verify: a hash verifies the password it was made
\* from and no other.
Argon2Hash(password) == <<"argon2id">> \o password.chars

Argon2Verify(hash, password) == hash = Argon2Hash(password)

\* SELECT COUNT(*) FROM users WHERE signup_ip = ?
CountUsersByIP(ip) ==
    Cardinality({i \in DOMAIN users : users[i].signup_ip = ip})

\* SELECT * FROM users WHERE username = ?  (the ids of the rows found)
GetUserByUsername(username) ==
    {i \in DOMAIN users : users[i].username = username}

\* A plausible slip: the cap is compared with > instead of >=.
IpLimitOffByOne(ip) == CountUsersByIP(ip) > IpCap

\* The per-IP check of register (line 1018).
IpLimitReached(ip) == CountUsersByIP(ip) >= IpCap

\* The input check of register (lines 1007-1012), TRUE when it rejects.
RegisterInvalid(username, password) ==
    \/ ~username.isString
    \/ ~password.isString
    \/ Len(username.chars) < MinUsernameLength
    \/ Len(password.chars) < MinPasswordLength

\* username.toLowerCase().trim()
NormalizeUsername(username) == Trim(ToLowerCase(username.chars))

\* POST /api/auth/register up to its await of argon2.hash.
RegisterBegin(s, ua, ip, username, password) ==
    /\ UAPasses(s, ua)
    /\ IF RegisterInvalid(username, password)
       THEN /\ last' = HttpFrom("POST /api/auth/register", s, ua, ip, 400,
                            "Invalid username or password", "invalid")
            /\ UNCHANGED reqVars
       ELSE IF IpLimitReached(ip)
       THEN /\ last' = HttpFrom("POST /api/auth/register", s, ua, ip, 403,
                            "Account limit reached for this IP", "ip_cap")
            /\ UNCHANGED reqVars
       ELSE /\ Inflight < MaxInflight
            /\ Suspend(Req("register", s, ua, ip,
                           Str(NormalizeUsername(username)), password,
                           "none", "none", Load(s)))
            /\ last' = HttpFrom("POST /api/auth/register", s, ua, ip, 0, "none",
                            "hashing")
    /\ UNCHANGED <<cacheVars, now, tokenVars, sessions, dbVars>>

\* A plausible slip: the row is created but the session is not signed in.
RegisterEndWithoutSignIn(r) ==
    /\ r \in BagToSet(reqs)
    /\ r.kind = "register"
    /\ Resume(r)
    /\ IF GetUserByUsername(r.username.chars) /= {}
       THEN /\ last' = HttpFrom("POST /api/auth/register", r.sid, r.ua, r.ip, 409,
                            "Username already exists", "duplicate")
            /\ UNCHANGED <<users, sessions>>
       ELSE /\ users' = Append(users,
                               [id |-> Len(users) + 1,
                                username |-> r.username.chars,
                                password_hash |-> Argon2Hash(r.password),
                                signup_ip |-> r.ip])
            /\ UNCHANGED sessions
            /\ last' = HttpFrom("POST /api/auth/register", r.sid, r.ua, r.ip, 201,
                            "none", "created")
    /\ UNCHANGED <<cacheVars, now, tokenVars, comments, nextCid>>

\* register after the await: the insert, which the UNIQUE constraint on
\* username may refuse, and the session's sign-in.
RegisterEnd(r) ==
    /\ r \in BagToSet(reqs)
    /\ r.kind = "register"
    /\ Resume(r)
    /\ IF GetUserByUsername(r.username.chars) /= {}
       THEN /\ last' = HttpFrom("POST /api/auth/register", r.sid, r.ua, r.ip, 409,
                            "Username already exists", "duplicate")
            /\ UNCHANGED <<users, sessions>>
       ELSE /\ users' = Append(users,
                               [id |-> Len(users) + 1,
                                username |-> r.username.chars,
                                password_hash |-> Argon2Hash(r.password),
                                signup_ip |-> r.ip])
            /\ sessions' =
                 Save(r.sid, r.sess,
                      [r.sess EXCEPT
                         !.user = [id |-> Len(users) + 1,
                                   username |-> r.username.chars],
                         !.ua = HashUA(r.ua)])
            /\ last' = HttpFrom("POST /api/auth/register", r.sid, r.ua, r.ip, 201,
                            "none", "created")
    /\ UNCHANGED <<cacheVars, now, tokenVars, comments, nextCid>>

\* A plausible slip: an unknown username is reported as such.
LoginUnknownUserSaysSo == [status |-> 404, error |-> "User not found"]

\* The response of login to a username that is not in the table (line 1054).
LoginUnknownUser == [status |-> 401, error |-> "Invalid credentials"]

\* The response of login to a password that does not verify (line 1059).
LoginBadPassword == [status |-> 401, error |-> "Invalid credentials"]

\* POST /api/auth/login up to its await of argon2.verify.  A username that
\* is not a string makes toLowerCase throw: no response is written.
LoginBegin(s, ua, username, password) ==
    /\ UAPasses(s, ua)
    /\ IF ~username.isString
       THEN /\ last' = Http("POST /api/auth/login", s, ua, 0, "TypeError",
                            "threw")
            /\ UNCHANGED reqVars
       ELSE IF GetUserByUsername(NormalizeUsername(username)) = {}
       THEN /\ last' = Http("POST /api/auth/login", s, ua,
                            LoginUnknownUser.status, LoginUnknownUser.error,
                            "no_user")
            /\ UNCHANGED reqVars
       ELSE /\ Inflight < MaxInflight
            /\ Suspend(Req("login", s, ua, "none",
                           Str(NormalizeUsername(username)), password,
                           "none", "none", Load(s)))
            /\ last' = Http("POST /api/auth/login", s, ua, 0, "none",
                            "verifying")
    /\ UNCHANGED <<cacheVars, now, tokenVars, sessions, dbVars>>

\* A plausible slip: a refused password signs the session out.
LoginEndSignsOutOnRefusal(r) ==
    /\ r \in BagToSet(reqs)
    /\ r.kind = "login"
    /\ Resume(r)
    /\ LET user == users[CHOOSE i \in GetUserByUsername(r.username.chars) : TRUE]
       IN  IF ~r.password.isString
           THEN /\ last' = Http("POST /api/auth/login", r.sid, r.ua, 0,
                                "TypeError", "threw")
                /\ UNCHANGED sessions
           ELSE IF ~Argon2Verify(user.password_hash, r.password)
           THEN /\ last' = Http("POST /api/auth/login", r.sid, r.ua,
                                LoginBadPassword.status,
                                LoginBadPassword.error, "bad_password")
                /\ sessions' =
                     Save(r.sid, r.sess, [r.sess EXCEPT !.user = NoUser])
           ELSE /\ sessions' =
                     Save(r.sid, r.sess,
                          [r.sess EXCEPT
                             !.user = [id |-> user.id,
                                       username |-> user.username],
                             !.ua = HashUA(r.ua)])
                /\ last' = Http("POST /api/auth/login", r.sid, r.ua, 200,
                                "none", "signed_in")
    /\ UNCHANGED <<cacheVars, now, tokenVars, dbVars>>

\* login after the await.  argon2.verify rejects a password that is not a
\* string: again no response is written.
LoginEnd(r) ==
    /\ r \in BagToSet(reqs)
    /\ r.kind = "login"
    /\ Resume(r)
    /\ LET user == users[CHOOSE i \in GetUserByUsername(r.username.chars) : TRUE]
       IN  IF ~r.password.isString
           THEN /\ last' = Http("POST /api/auth/login", r.sid, r.ua, 0,
                                "TypeError", "threw")
                /\ UNCHANGED sessions
           ELSE IF ~Argon2Verify(user.password_hash, r.password)
           THEN /\ last' = Http("POST /api/auth/login", r.sid, r.ua,
                                LoginBadPassword.status,
                                LoginBadPassword.error, "bad_password")
                /\ UNCHANGED sessions
           ELSE /\ sessions' =
                     Save(r.sid, r.sess,
                          [r.sess EXCEPT
                             !.user = [id |-> user.id,
                                       username |-> user.username],
                             !.ua = HashUA(r.ua)])
                /\ last' = Http("POST /api/auth/login", r.sid, r.ua, 200,
                                "none", "signed_in")
    /\ UNCHANGED <<cacheVars, now, tokenVars, dbVars>>

(***************************************************************************)
(* COMMENTS: the comments table and its three routes.  A text is the       *)
(* sequence of its runs, a run being a character (or a markup tag) and the *)
(* number of times it is repeated, so that a text of 4001 characters is    *)
(* one run.                                                                *)
(***************************************************************************)
CommentCap == 5
MaxTitleLength == 128
MaxBodyLength == 4000

Txt(runs) == [isString |-> TRUE, runs |-> runs]

NotAText == [isString |-> FALSE, runs |-> <<>>]

Run(ch, n) == [ch |-> ch, n |-> n]

\* The number of UTF-16 units of one occurrence of a run's character.
Width(ch) ==
    CASE ch = "<b>" -> 3
      [] ch = "&amp;" -> 5
      [] OTHER -> 1

RECURSIVE TextLength(_)
TextLength(runs) ==
    IF runs = <<>> THEN 0
    ELSE Width(Head(runs).ch) * Head(runs).n + TextLength(Tail(runs))

RECURSIVE TrimRunsStart(_)
TrimRunsStart(runs) ==
    IF runs /= <<>> /\ Head(runs).ch = " "
    THEN TrimRunsStart(Tail(runs))
    ELSE runs

RECURSIVE TrimRunsEnd(_)
TrimRunsEnd(runs) ==
    IF runs /= <<>> /\ runs[Len(runs)].ch = " "
    THEN TrimRunsEnd(SubSeq(runs, 1, Len(runs) - 1))
    ELSE runs

\* String.prototype.trim on a text
TrimText(runs) == TrimRunsEnd(TrimRunsStart(runs))

\* sanitizeHtml(text, {allowedTags: [], allowedAttributes: {}}): tags are
\* dropped, the text between them is kept and its & is escaped.
RECURSIVE SanitizeHtml(_)
SanitizeHtml(runs) ==
    IF runs = <<>> THEN <<>>
    ELSE IF Head(runs).ch = "<b>" THEN SanitizeHtml(Tail(runs))
    ELSE IF Head(runs).ch = "&"
    THEN <<Run("&amp;", Head(runs).n)>> \o SanitizeHtml(Tail(runs))
    ELSE <<Head(runs)>> \o SanitizeHtml(Tail(runs))

\* SELECT COUNT(*) FROM comments WHERE user_id = ?
CountCommentsByUser(userId) ==
    Cardinality({c \in comments : c.user_id = userId})

\* SELECT * FROM comments WHERE id = ?
GetCommentById(id) == {c \in comments : c.id = id}

\* getAllComments: the rows joined with their authors (the ids returned).
GetAllComments ==
    {c.id : c \in {d \in comments : d.user_id \in DOMAIN users}}

\* A plausible slip: requireAuth lets every request through.
RequireAuthAlwaysPasses(sess) == TRUE

\* requireAuth, TRUE when it calls next().
RequireAuth(sess) == sess.user /= NoUser

\* The input check of POST /api/comments (lines 1106-1113), TRUE when it
\* rejects.
CommentInvalid(title, body) ==
    \/ ~title.isString
    \/ ~body.isString
    \/ TextLength(title.runs) > MaxTitleLength
    \/ TextLength(body.runs) > MaxBodyLength
    \/ TrimText(title.runs) = <<>>
    \/ TrimText(body.runs) = <<>>

\* A plausible slip: the cap is compared with > instead of >=.
CommentLimitOffByOne(userId) == CountCommentsByUser(userId) > CommentCap

\* The per-user check of POST /api/comments (line 1117).
CommentLimitReached(userId) == CountCommentsByUser(userId) >= CommentCap

\* POST /api/comments
PostComment(s, ua, title, body) ==
    /\ UAPasses(s, ua)
    /\ IF ~RequireAuth(Load(s))
       THEN /\ last' = Http("POST /api/comments", s, ua, 401,
                            "SESSION_EXPIRED", "no_user")
            /\ UNCHANGED <<comments, nextCid>>
       ELSE IF CommentInvalid(title, body)
       THEN /\ last' = Http("POST /api/comments", s, ua, 400,
                            "Invalid comment length", "invalid")
            /\ UNCHANGED <<comments, nextCid>>
       ELSE IF CommentLimitReached(Load(s).user.id)
       THEN /\ last' = Http("POST /api/comments", s, ua, 403,
                            "Comment limit reached", "comment_cap")
            /\ UNCHANGED <<comments, nextCid>>
       ELSE /\ nextCid <= MaxComments
            /\ comments' = comments \cup
                 {[id |-> nextCid, user_id |-> Load(s).user.id,
                   title |-> SanitizeHtml(TrimText(title.runs)),
                   body |-> SanitizeHtml(TrimText(body.runs))]}
            /\ nextCid' = nextCid + 1
            /\ last' = Http("POST /api/comments", s, ua, 201, "none",
                            "created")
    /\ UNCHANGED <<cacheVars, now, tokenVars, sessions, users, reqVars>>

\* A plausible slip: the owner check is dropped.
AnyoneIsOwner(comment, userId) == TRUE

\* The owner check of DELETE /api/comments/:id (line 1140).
IsOwner(comment, userId) == comment.user_id = userId

\* A plausible slip: the comment is looked up before the session is, so an
\* unknown id is reported to a client that is not signed in.
DeleteCommentLooksUpFirst(s, ua, id) ==
    /\ UAPasses(s, ua)
    /\ IF GetCommentById(id) = {}
       THEN /\ last' = HttpId("DELETE /api/comments/:id", s, ua, id, 404,
                            "Comment not found", "not_found")
            /\ UNCHANGED comments
       ELSE IF ~RequireAuth(Load(s))
       THEN /\ last' = HttpId("DELETE /api/comments/:id", s, ua, id, 401,
                            "SESSION_EXPIRED", "no_user")
            /\ UNCHANGED comments
       ELSE IF ~IsOwner(CHOOSE c \in GetCommentById(id) : TRUE,
                        Load(s).user.id)
       THEN /\ last' = HttpId("DELETE /api/comments/:id", s, ua, id, 403,
                            "Not your comment", "not_owner")
            /\ UNCHANGED comments
       ELSE /\ comments' = comments \ GetCommentById(id)
            /\ last' = HttpId("DELETE /api/comments/:id", s, ua, id, 200,
                              "none", "deleted")
    /\ UNCHANGED <<cacheVars, now, tokenVars, sessions, users, nextCid, reqVars>>

\* DELETE /api/comments/:id
DeleteComment(s, ua, id) ==
    /\ UAPasses(s, ua)
    /\ IF ~RequireAuth(Load(s))
       THEN /\ last' = HttpId("DELETE /api/comments/:id", s, ua, id, 401,
                            "SESSION_EXPIRED", "no_user")
            /\ UNCHANGED comments
       ELSE IF GetCommentById(id) = {}
       THEN /\ last' = HttpId("DELETE /api/comments/:id", s, ua, id, 404,
                            "Comment not found", "not_found")
            /\ UNCHANGED comments
       ELSE IF ~IsOwner(CHOOSE c \in GetCommentById(id) : TRUE,
                        Load(s).user.id)
       THEN /\ last' = HttpId("DELETE /api/comments/:id", s, ua, id, 403,
                            "Not your comment", "not_owner")
            /\ UNCHANGED comments
       ELSE /\ comments' = comments \ GetCommentById(id)
            /\ last' = HttpId("DELETE /api/comments/:id", s, ua, id, 200,
                              "none", "deleted")
    /\ UNCHANGED <<cacheVars, now, tokenVars, sessions, users, nextCid, reqVars>>

\* GET /api/comments
GetComments(s, ua) ==
    /\ UAPasses(s, ua)
    /\ last' = [Http("GET /api/comments", s, ua, 200, "none", "list")
                  EXCEPT !.list = GetAllComments]
    /\ UNCHANGED <<cacheVars, now, tokenVars, sessions, dbVars, reqVars>>

(***************************************************************************)
(* THE ARTIST CACHE: .cache/artists.json and its helper functions.  An     *)
(* artist is its id and its name; a property the provider left out is      *)
(* `undefined`.  The file holds the JSON text of {artists, timestamp}.      *)
(***************************************************************************)
CACHE_DURATION == 43200000

Undefined == "undefined"

Artist(id, name) == [id |-> id, name |-> name]

\* An array, or null.
Null == [isNull |-> TRUE, items |-> <<>>]
Array(items) == [isNull |-> FALSE, items |-> items]

\* JSON.stringify of an object: its properties in order, without those
\* whose value is undefined.
StringifyArtist(a) ==
    <<<<"id", a.id>>>>
      \o (IF a.name = Undefined THEN <<>> ELSE <<<<"name", a.name>>>>)

\* JSON.stringify(cache)
JsonStringify(artists, timestamp) ==
    [parses |-> TRUE,
     artists |-> [i \in 1..Len(artists) |-> StringifyArtist(artists[i])],
     timestamp |-> timestamp]

\* The value of a property of a parsed object (undefined when absent).
Property(pairs, key) ==
    IF \E i \in 1..Len(pairs) : pairs[i][1] = key
    THEN pairs[CHOOSE i \in 1..Len(pairs) : pairs[i][1] = key][2]
    ELSE Undefined

\* JSON.parse of one artist.
ParseArtist(pairs) == Artist(Property(pairs, "id"), Property(pairs, "name"))

\* A file whose content JSON.parse rejects.
Unparsable == [parses |-> FALSE, artists |-> <<>>, timestamp |-> 0]

NoCacheFile == [exists |-> FALSE, text |-> Unparsable]

\* readCacheFromDisk's answer for a file that is missing or unreadable.
NoCache == [artists |-> Null, timestamp |-> 0]

\* readCacheFromDisk
ReadCacheFromDisk ==
    IF cacheFile.exists /\ cacheFile.text.parses
    THEN [artists |->
            Array([i \in 1..Len(cacheFile.text.artists) |->
                     ParseArtist(cacheFile.text.artists[i])]),
          timestamp |-> cacheFile.text.timestamp]
    ELSE NoCache

\* A plausible slip: a file that is there is updated in place, and only the
\* list is replaced.
WriteCacheToDiskKeepsTimestamp(artists, writeOk) ==
    IF writeOk
    THEN [exists |-> TRUE,
          text |-> JsonStringify(artists,
                                 IF cacheFile.exists /\ cacheFile.text.parses
                                 THEN cacheFile.text.timestamp
                                 ELSE now)]
    ELSE cacheFile

\* writeCacheToDisk: the new content of the file; a failed write leaves it.
WriteCacheToDisk(artists, writeOk) ==
    IF writeOk
    THEN [exists |-> TRUE, text |-> JsonStringify(artists, now)]
    ELSE cacheFile

\* A plausible slip: an age of exactly CACHE_DURATION still counts as valid.
IsCacheValidInclusive ==
    LET cache == ReadCacheFromDisk
    IN  IF cache.artists.isNull \/ cache.timestamp = 0
        THEN FALSE
        ELSE now - cache.timestamp <= CACHE_DURATION

\* A plausible slip: the comparison is turned around.
IsCacheValidReversed ==
    LET cache == ReadCacheFromDisk
    IN  IF cache.artists.isNull \/ cache.timestamp = 0
        THEN FALSE
        ELSE now - cache.timestamp > CACHE_DURATION

\* isCacheValid
IsCacheValid ==
    LET cache == ReadCacheFromDisk
    IN  IF cache.artists.isNull \/ cache.timestamp = 0
        THEN FALSE
        ELSE now - cache.timestamp < CACHE_DURATION

\* A plausible slip: an empty cached list is taken for no list.
GetCachedArtistsEmptyIsNull ==
    LET cache == ReadCacheFromDisk
    IN  IF cache.artists.isNull \/ cache.artists.items = <<>>
        THEN Null
        ELSE cache.artists

\* getCachedArtists
GetCachedArtists ==
    LET cache == ReadCacheFromDisk
    IN  IF cache.artists.isNull THEN Null ELSE cache.artists

\* The clock when the server starts: Date.now() is positive.
Boot == MsPerSecond

\* Time passes: a second, or a second less than the cache's lifetime.
Span == CACHE_DURATION - MsPerSecond

WaitSteps == {MsPerSecond, Span}

\* The clock never runs past a moment at which the timer is due.
Wait(ms) ==
    /\ ms = MsPerSecond => ((now - Boot) % Span) < MaxSeconds * MsPerSecond
    /\ ms = Span => /\ ((now - Boot) \div Span) < MaxSleeps
                    /\ ((now - Boot) % CACHE_DURATION) <= MsPerSecond
    /\ now' = now + ms
    /\ last' = Step("wait", "none", 0, "none", "none", 0)
    /\ UNCHANGED <<cacheVars, tokenVars, sessions, dbVars, reqVars>>

CacheInit ==
    /\ cacheFile = NoCacheFile
    /\ refresh = [c \in Callers |-> FALSE]
    /\ fetches = 0
    /\ outage = FALSE
    /\ herd = FALSE

(***************************************************************************)
(* refreshCache and its callers: the startup check, the periodic timer and *)
(* GET /api/artists.  A refresh first awaits getSpotifyAccessToken, then   *)
(* getTopArtists, then writes the cache; whatever fails, it returns the    *)
(* cached list or an empty one.                                            *)
(***************************************************************************)
\* The lists getTopArtists can return that refreshCache accepts.
GlobalLists == {<<Artist("a1", "Ann Artist"), Artist("a2", "Bo Band")>>}

\* The lists the provider can return as the user's top artists.
PersonalLists == {<<Artist("p1", "My Artist")>>, <<>>}

ArtistsRoute == "GET /api/artists"
ArtistRoute == "GET /api/artists/:id"

\* The store after a response whose handler changed req.session.
Store(s, sess) == [sessions EXCEPT ![s] = [sess EXCEPT !.exists = TRUE]]

\* The kinds of GET /api/artists requests that wait for refreshCache.
RefreshKinds == {"artists_refresh", "artists_fallback"}

\* Caller c is inside refreshCache.
RefreshOf(c) ==
    \/ refresh[c]
    \/ /\ calls[c] /= 0
       /\ c = "request" => \E r \in BagToSet(reqs) : r.kind \in RefreshKinds

\* getCachedArtists() || []
CachedOrEmpty ==
    IF GetCachedArtists.isNull THEN <<>> ELSE GetCachedArtists.items

\* refreshCache up to its first await that yields to other requests: the
\* token comes from the token cache and getTopArtists starts, or the
\* client-credentials request is sent.
StartRefresh(c) ==
    /\ calls[c] = 0
    /\ ~refresh[c]
    /\ herd' = (herd \/ \E d \in Callers : RefreshOf(d))
    /\ IF CachedToken /= 0
       THEN /\ fetches < MaxFetches
            /\ refresh' = [refresh EXCEPT ![c] = TRUE]
            /\ fetches' = fetches + 1
            /\ UNCHANGED tokenVars
       ELSE /\ exchanges < MaxExchanges
            /\ exchanges' = exchanges + 1
            /\ calls' = [calls EXCEPT ![c] = exchanges + 1]
            /\ overlap' = (overlap \/ \E d \in Callers : calls[d] /= 0)
            /\ UNCHANGED <<tokenFile, refresh, fetches>>
    /\ UNCHANGED <<cacheFile, outage>>

\* refreshCache returns `artists`: GET /api/artists answers with them, the
\* startup check and the timer drop them.
FinishRefresh(c, artists, why, fetched) ==
    IF c = "request"
    THEN \E r \in BagToSet(reqs) :
           /\ r.kind \in RefreshKinds
           /\ Resume(r)
           /\ sessions' = IF r.kind = "artists_fallback"
                          THEN Store(r.sid, r.sess)
                          ELSE sessions
           /\ last' = [Http(ArtistsRoute, r.sid, r.ua, 200, "none", why)
                         EXCEPT !.artists = artists, !.source = "global",
                                !.cached = IsCacheValid',
                                !.fetched = fetched]
    ELSE /\ last' = [Step("refreshCache", c, 0, "none", why, 0)
                       EXCEPT !.artists = artists, !.fetched = fetched]
         /\ UNCHANGED <<sessions, reqVars>>

\* The startup check (lines 1173-1180): the first thing the server does.
Startup ==
    /\ last.route = "init"
    /\ IF IsCacheValid
       THEN /\ last' = Step("startup", "startup", 0, "none", "cache_valid", 0)
            /\ UNCHANGED <<tokenVars, cacheVars>>
       ELSE /\ StartRefresh("startup")
            /\ last' = Step("startup", "startup", 0, "none", "refreshing", 0)
    /\ UNCHANGED <<now, sessions, dbVars, reqVars>>

\* The timer of setInterval fires every CACHE_DURATION.
TimerDue ==
    /\ last.route = "wait"
    /\ now > Boot
    /\ (now - Boot) % CACHE_DURATION = 0

\* A plausible slip: the timer's callback of the in-memory server
\* (src/unnamed/part_003), which refreshes at every tick.
PeriodicAlwaysRefreshes ==
    /\ TimerDue
    /\ StartRefresh("periodic")
    /\ last' = Step("periodic", "periodic", 0, "none", "refreshing", 0)
    /\ UNCHANGED <<now, sessions, dbVars, reqVars>>

\* The timer's callback (lines 1183-1190).
Periodic ==
    /\ TimerDue
    /\ IF IsCacheValid
       THEN /\ last' = Step("periodic", "periodic", 0, "none", "cache_valid", 0)
            /\ UNCHANGED <<tokenVars, cacheVars>>
       ELSE /\ StartRefresh("periodic")
            /\ last' = Step("periodic", "periodic", 0, "none", "refreshing", 0)
    /\ UNCHANGED <<now, sessions, dbVars, reqVars>>

\* refreshCache gets its token from the provider and starts getTopArtists.
RefreshTokenOk(c, expiresIn, writeOk) ==
    /\ calls[c] /= 0
    /\ RefreshOf(c)
    /\ fetches < MaxFetches
    /\ tokenFile' = WriteTokenToDisk(calls[c], expiresIn, writeOk)
    /\ calls' = [calls EXCEPT ![c] = 0]
    /\ refresh' = [refresh EXCEPT ![c] = TRUE]
    /\ fetches' = fetches + 1
    /\ last' = Step("exchange", c, 200, "none", "fresh", calls[c])
    /\ UNCHANGED <<now, exchanges, overlap, cacheFile, outage, herd, sessions,
                   dbVars, reqVars>>

\* getSpotifyAccessToken rejects: refreshCache falls back.
RefreshTokenFail(c) ==
    /\ calls[c] /= 0
    /\ RefreshOf(c)
    /\ calls' = [calls EXCEPT ![c] = 0]
    /\ outage' = TRUE
    /\ UNCHANGED <<now, tokenFile, exchanges, overlap, cacheFile, refresh,
                   fetches, herd, dbVars>>
    /\ FinishRefresh(c, CachedOrEmpty, "refresh_failed", <<>>)

\* A plausible slip: writeCacheToDisk lets the write error out, and
\* refreshCache's catch answers with the old list.
RefreshFetchOkWriteThrows(c, artists, writeOk) ==
    /\ refresh[c]
    /\ refresh' = [refresh EXCEPT ![c] = FALSE]
    /\ cacheFile' = WriteCacheToDisk(artists, writeOk)
    /\ outage' = (outage \/ ~writeOk)
    /\ UNCHANGED <<now, tokenVars, fetches, herd, dbVars>>
    /\ IF writeOk
       THEN FinishRefresh(c, artists, "refreshed", artists)
       ELSE FinishRefresh(c, CachedOrEmpty, "refresh_failed", artists)

\* getTopArtists returns a list that is not empty: it is written and
\* returned.
RefreshFetchOk(c, artists, writeOk) ==
    /\ refresh[c]
    /\ refresh' = [refresh EXCEPT ![c] = FALSE]
    /\ cacheFile' = WriteCacheToDisk(artists, writeOk)
    /\ outage' = (outage \/ ~writeOk)
    /\ UNCHANGED <<now, tokenVars, fetches, herd, dbVars>>
    /\ FinishRefresh(c, artists, "refreshed", artists)

\* getTopArtists throws or returns an empty list: refreshCache falls back.
RefreshFetchFail(c) ==
    /\ refresh[c]
    /\ refresh' = [refresh EXCEPT ![c] = FALSE]
    /\ outage' = TRUE
    /\ UNCHANGED <<now, tokenVars, cacheFile, fetches, herd, dbVars>>
    /\ FinishRefresh(c, CachedOrEmpty, "refresh_failed", <<>>)

\* A plausible slip: the check for an empty list is missing, and the empty
\* list is written and returned.
RefreshFetchEmptyIsWritten(c) ==
    /\ refresh[c]
    /\ refresh' = [refresh EXCEPT ![c] = FALSE]
    /\ cacheFile' = WriteCacheToDisk(<<>>, TRUE)
    /\ UNCHANGED <<now, tokenVars, fetches, outage, herd, dbVars>>
    /\ FinishRefresh(c, <<>>, "refreshed", <<>>)

\* getTopArtists returns the empty list: refreshCache throws 'No artists
\* returned from Spotify' into its own catch and falls back.
RefreshFetchEmpty(c) ==
    /\ refresh[c]
    /\ refresh' = [refresh EXCEPT ![c] = FALSE]
    /\ outage' = TRUE
    /\ UNCHANGED <<now, tokenVars, cacheFile, fetches, herd, dbVars>>
    /\ FinishRefresh(c, CachedOrEmpty, "no_artists", <<>>)

\* A GET /api/artists or GET /api/artists/:id request suspended at an
\* await; `kind` tells which await.
ArtistsReq(kind, s, ua, sess) ==
    Req(kind, s, ua, "none", NotAString, NotAString, "none", "none", sess)

\* A plausible slip: `source` is set before the personal list has arrived,
\* so the fallback answers as 'personal'.
ServeCacheKeepsSource(s, ua, why) ==
    [Http(ArtistsRoute, s, ua, 200, "none", why)
       EXCEPT !.artists = GetCachedArtists.items,
              !.source = IF why = "fallback_cache" THEN "personal"
                         ELSE "global",
              !.cached = IsCacheValid]

\* The answer of GET /api/artists with the global list from the cache.
ServeCache(s, ua, why) ==
    [Http(ArtistsRoute, s, ua, 200, "none", why)
       EXCEPT !.artists = GetCachedArtists.items, !.source = "global",
              !.cached = IsCacheValid]

\* GET /api/artists up to its first await: with a provider token in the
\* session the personal list is requested with it; without one the global
\* list is served from a valid cache, or refreshCache is started.
ArtistsBegin(s, ua) ==
    /\ UAPasses(s, ua)
    /\ IF Load(s).spotifyToken /= 0
       THEN /\ Inflight < MaxInflight
            /\ Suspend(ArtistsReq("artists_personal", s, ua, Load(s)))
            /\ last' = [Http(ArtistsRoute, s, ua, 0, "none", "personal_fetch")
                          EXCEPT !.token = Load(s).spotifyToken]
            /\ UNCHANGED <<tokenVars, cacheVars>>
       ELSE IF IsCacheValid
       THEN /\ last' = ServeCache(s, ua, "cache")
            /\ UNCHANGED <<tokenVars, cacheVars, reqVars>>
       ELSE /\ Inflight < MaxInflight
            /\ StartRefresh("request")
            /\ Suspend(ArtistsReq("artists_refresh", s, ua, Load(s)))
            /\ last' = Http(ArtistsRoute, s, ua, 0, "none", "refreshing")
    /\ UNCHANGED <<now, sessions, dbVars>>

\* getUserTopArtists returns the user's list; the provider accepts a token
\* only before its expiry.
PersonalOk(r, items) ==
    /\ r \in BagToSet(reqs)
    /\ r.kind = "artists_personal"
    /\ now < r.sess.tokenExpiry
    /\ Resume(r)
    /\ last' = [Http(ArtistsRoute, r.sid, r.ua, 200, "none", "personal")
                  EXCEPT !.artists = items, !.source = "personal",
                         !.cached = FALSE]
    /\ UNCHANGED <<now, tokenVars, cacheVars, sessions, dbVars>>

\* getUserTopArtists throws: the token is deleted from req.session and the
\* request goes on as one without a token.
PersonalFail(r) ==
    /\ r \in BagToSet(reqs)
    /\ r.kind = "artists_personal"
    /\ LET sess == [r.sess EXCEPT !.spotifyToken = 0]
       IN  IF IsCacheValid
           THEN /\ Resume(r)
                /\ sessions' = Store(r.sid, sess)
                /\ last' = ServeCache(r.sid, r.ua, "fallback_cache")
                /\ UNCHANGED <<tokenVars, cacheVars>>
           ELSE /\ StartRefresh("request")
                /\ reqs' = (reqs (-) SetToBag({r}))
                             (+) SetToBag({[r EXCEPT !.kind = "artists_fallback",
                                                     !.sess = sess]})
                /\ last' = Http(ArtistsRoute, r.sid, r.ua, 0, "none",
                                "fallback_refreshing")
                /\ UNCHANGED <<raced, sessions>>
    /\ UNCHANGED <<now, dbVars>>



\* A plausible slip: the handler takes the client-credentials token even
\* when the session has a provider token.
ArtistBeginIgnoresSessionToken(s, ua) ==
    /\ UAPasses(s, ua)
    /\ Inflight < MaxInflight
    /\ IF CachedToken /= 0
       THEN /\ Suspend(ArtistsReq("artist_detail", s, ua, Load(s)))
            /\ last' = [Http(ArtistRoute, s, ua, 0, "none",
                             "detail_fetch_client")
                          EXCEPT !.token = CachedToken]
            /\ UNCHANGED tokenVars
       ELSE /\ calls["request"] = 0
            /\ ~refresh["request"]
            /\ exchanges < MaxExchanges
            /\ exchanges' = exchanges + 1
            /\ calls' = [calls EXCEPT !["request"] = exchanges + 1]
            /\ overlap' = (overlap \/ \E d \in Callers : calls[d] /= 0)
            /\ Suspend(ArtistsReq("artist_token", s, ua, Load(s)))
            /\ last' = Http(ArtistRoute, s, ua, 0, "none", "token_exchange")
            /\ UNCHANGED tokenFile
    /\ UNCHANGED <<cacheVars, now, sessions, dbVars>>

\* GET /api/artists/:id up to its first await: the session's token if there
\* is one, else the client-credentials token.
ArtistBegin(s, ua) ==
    /\ UAPasses(s, ua)
    /\ Inflight < MaxInflight
    /\ IF Load(s).spotifyToken /= 0
       THEN /\ Suspend(ArtistsReq("artist_detail", s, ua, Load(s)))
            /\ last' = [Http(ArtistRoute, s, ua, 0, "none",
                             "detail_fetch_session")
                          EXCEPT !.token = Load(s).spotifyToken]
            /\ UNCHANGED tokenVars
       ELSE IF CachedToken /= 0
       THEN /\ Suspend(ArtistsReq("artist_detail", s, ua, Load(s)))
            /\ last' = [Http(ArtistRoute, s, ua, 0, "none",
                             "detail_fetch_client")
                          EXCEPT !.token = CachedToken]
            /\ UNCHANGED tokenVars
       ELSE /\ calls["request"] = 0
            /\ ~refresh["request"]
            /\ exchanges < MaxExchanges
            /\ exchanges' = exchanges + 1
            /\ calls' = [calls EXCEPT !["request"] = exchanges + 1]
            /\ overlap' = (overlap \/ \E d \in Callers : calls[d] /= 0)
            /\ Suspend(ArtistsReq("artist_token", s, ua, Load(s)))
            /\ last' = Http(ArtistRoute, s, ua, 0, "none", "token_exchange")
            /\ UNCHANGED tokenFile
    /\ UNCHANGED <<cacheVars, now, sessions, dbVars>>

HealthRoute == "GET /api/health"

\* A plausible slip: the cache file is parsed outside the try block, so a
\* file that cannot be parsed makes the handler throw.
HealthWithoutCatch(s, ua) ==
    /\ UAPasses(s, ua)
    /\ last' = IF cacheFile.exists /\ ~cacheFile.text.parses
               THEN Http(HealthRoute, s, ua, 500, "Internal Server Error",
                         "threw")
               ELSE [Http(HealthRoute, s, ua, 200, "none",
                          IF IsCacheValid THEN "valid" ELSE "expired")
                       EXCEPT !.arg = Len(ReadCacheFromDisk.artists.items),
                              !.cached = IsCacheValid]
    /\ UNCHANGED <<cacheVars, now, tokenVars, sessions, dbVars, reqVars>>

\* GET /api/health: status 'ok' with the cache's status and artist count.
Health(s, ua) ==
    /\ UAPasses(s, ua)
    /\ last' = [Http(HealthRoute, s, ua, 200, "none",
                     IF IsCacheValid THEN "valid" ELSE "expired")
                  EXCEPT !.arg = Len(ReadCacheFromDisk.artists.items),
                         !.cached = IsCacheValid]
    /\ UNCHANGED <<cacheVars, now, tokenVars, sessions, dbVars, reqVars>>

\* The client-credentials token arrives and the artist is requested.
ArtistTokenOk(r, expiresIn, writeOk) ==
    /\ r \in BagToSet(reqs)
    /\ r.kind = "artist_token"
    /\ tokenFile' = WriteTokenToDisk(calls["request"], expiresIn, writeOk)
    /\ calls' = [calls EXCEPT !["request"] = 0]
    /\ reqs' = (reqs (-) SetToBag({r}))
                 (+) SetToBag({[r EXCEPT !.kind = "artist_detail"]})
    /\ last' = [Http(ArtistRoute, r.sid, r.ua, 0, "none",
                     "detail_fetch_client")
                  EXCEPT !.token = calls["request"]]
    /\ UNCHANGED <<cacheVars, now, exchanges, overlap, raced, sessions,
                   dbVars>>

\* getSpotifyAccessToken rejects: 500.
ArtistTokenFail(r) ==
    /\ r \in BagToSet(reqs)
    /\ r.kind = "artist_token"
    /\ calls' = [calls EXCEPT !["request"] = 0]
    /\ Resume(r)
    /\ last' = Http(ArtistRoute, r.sid, r.ua, 500,
                    "Failed to fetch artist details", "token_failed")
    /\ UNCHANGED <<cacheVars, now, tokenFile, exchanges, overlap, sessions,
                   dbVars>>

\* The two provider requests of GET /api/artists/:id end.
ArtistEnd(r, ok) ==
    /\ r \in BagToSet(reqs)
    /\ r.kind = "artist_detail"
    /\ Resume(r)
    /\ last' = IF ok
               THEN Http(ArtistRoute, r.sid, r.ua, 200, "none", "detail")
               ELSE Http(ArtistRoute, r.sid, r.ua, 500,
                         "Failed to fetch artist details", "detail_failed")
    /\ UNCHANGED <<cacheVars, now, tokenVars, sessions, dbVars>>

\* A call of writeCacheToDisk(artists).
CallWriteCacheToDisk(artists, writeOk) ==
    /\ cacheFile' = WriteCacheToDisk(artists, writeOk)
    /\ last' = [Step("writeCacheToDisk", "none", 0, "none",
                     IF writeOk THEN "written" ELSE "failed", 0)
                  EXCEPT !.artists = artists]
    /\ UNCHANGED <<now, refresh, fetches, outage, herd, tokenVars, sessions,
                   dbVars, reqVars>>

\* A call of writeTokenToDisk(token, expiresIn).
CallWriteTokenToDisk(token, expiresIn, writeOk) ==
    /\ tokenFile' = WriteTokenToDisk(token, expiresIn, writeOk)
    /\ last' = Step("writeTokenToDisk", "none", 0, "none",
                    IF writeOk THEN "written" ELSE "failed", token)
    /\ UNCHANGED <<now, calls, exchanges, overlap, cacheVars, sessions,
                   dbVars, reqVars>>

\* A call of isCacheValid().
CallIsCacheValid ==
    /\ last' = [Step("isCacheValid", "none", 0, "none", "none", 0)
                  EXCEPT !.cached = IsCacheValid]
    /\ UNCHANGED <<cacheVars, now, tokenVars, sessions, dbVars, reqVars>>

\* A call of getCachedArtists().
CallGetCachedArtists ==
    /\ last' = [Step("getCachedArtists", "none", 0, "none",
                     IF GetCachedArtists.isNull THEN "null" ELSE "array", 0)
                  EXCEPT !.artists = GetCachedArtists.items]
    /\ UNCHANGED <<cacheVars, now, tokenVars, sessions, dbVars, reqVars>>

(***************************************************************************)
(* The provider client: getMultipleArtists and getTopArtists.  An artist   *)
(* object of the provider is modelled by its id and its popularity.  Ids   *)
(* are numbers; NoId is an absent (falsy) id and NoPopularity an absent    *)
(* popularity.                                                             *)
(***************************************************************************)
NoId == 0
NoPopularity == -1

ProviderArtist(id, popularity) ==
    [isNull |-> FALSE, id |-> id, popularity |-> popularity]

\* A null entry of the provider's `artists` array.
NullArtist == [isNull |-> TRUE, id |-> NoId, popularity |-> NoPopularity]

\* What fetchSpotifyData gives: a rejection, or a body with or without the
\* list the caller looks for (data.artists, searchData.artists.items).
Rejected == [ok |-> FALSE, hasItems |-> FALSE, items |-> <<>>]
EmptyBody == [ok |-> TRUE, hasItems |-> FALSE, items |-> <<>>]
Body(items) == [ok |-> TRUE, hasItems |-> TRUE, items |-> items]

\* Array.prototype.slice(from, to), indices from 0.
Slice(seq, from, to) ==
    LET hi == IF to > Len(seq) THEN Len(seq) ELSE to
    IN  IF from >= hi THEN <<>> ELSE [i \in 1..(hi - from) |-> seq[from + i]]

\* The elements of a sequence.
Range(seq) == {seq[i] : i \in 1..Len(seq)}

\* The provider takes at most 50 ids in one call.
BatchSize == 50

\* Milliseconds getMultipleArtists waits after a batch.
BatchDelay == 100

\* for (let i = 0; i < artistIds.length; i += 50): the number of batches.
NumBatches(artistIds) == (Len(artistIds) + BatchSize - 1) \div BatchSize

\* batches[k - 1]: artistIds.slice(i, i + 50) with i = 50 * (k - 1).
Batch(artistIds, k) == Slice(artistIds, (k - 1) * BatchSize, k * BatchSize)

\* What one batch adds to allArtists: data.artists without its null
\* entries; nothing if the fetch was rejected or data.artists is absent.
BatchArtists(response) ==
    IF response.ok /\ response.hasItems
    THEN SelectSeq(response.items, LAMBDA a : ~a.isNull)
    ELSE <<>>

\* allArtists after the batches with these responses, in order.
RECURSIVE AllArtists(_)
AllArtists(responses) ==
    IF responses = <<>> THEN <<>>
    ELSE BatchArtists(Head(responses)) \o AllArtists(Tail(responses))

\* getMultipleArtists(accessToken, artistIds), the provider answering the
\* k-th batch with provider[k].
GetMultipleArtists(artistIds, provider) ==
    AllArtists([k \in 1..NumBatches(artistIds) |-> provider[k]])

\* A suspended call of getMultipleArtists: it waits for the answer to its
\* k-th batch; `got` are the answers it has had.
BatchCall(artistIds, k, allArtists, got) ==
    [kind |-> "getMultipleArtists", artistIds |-> artistIds, k |-> k,
     allArtists |-> allArtists, got |-> got]

\* A step of getMultipleArtists: the batch it asks for next (0: none, it
\* returns), the ids of that batch and, when it returns, the list returned.
BatchStep(k, ids, why, artists) ==
    [Step("getMultipleArtists", "none", 0, "none", why, 0)
       EXCEPT !.arg = k, !.list = Range(ids), !.fetched = artists]

\* getMultipleArtists is called: it splits the ids and asks for the first
\* batch; without ids it returns the empty list.
GetMultipleArtistsBegin(artistIds) ==
    /\ IF NumBatches(artistIds) = 0
       THEN /\ reqs' = reqs
            /\ last' = BatchStep(0, <<>>, "returned", <<>>)
       ELSE /\ reqs' = reqs (+) SetToBag({BatchCall(artistIds, 1, <<>>, <<>>)})
            /\ last' = BatchStep(1, Batch(artistIds, 1), "fetch", <<>>)
    /\ UNCHANGED <<now, tokenVars, sessions, dbVars, raced, cacheVars>>

\* The same, but a rejected batch ends the loop.
GetMultipleArtistsEndStopsOnFailure(r, response) ==
    /\ r \in BagToSet(reqs)
    /\ r.kind = "getMultipleArtists"
    /\ LET all == r.allArtists \o BatchArtists(response)
           got == Append(r.got, response)
           more == r.k < NumBatches(r.artistIds) /\ response.ok
           next == BatchCall(r.artistIds, r.k + 1, all, got)
       IN  /\ reqs' = IF more
                      THEN (reqs (-) SetToBag({r})) (+) SetToBag({next})
                      ELSE reqs (-) SetToBag({r})
           /\ last' = IF more
                      THEN BatchStep(r.k + 1, Batch(r.artistIds, r.k + 1),
                                     "fetch", <<>>)
                      ELSE BatchStep(0, <<>>, "returned", all)
    /\ now' = IF response.ok /\ NumBatches(r.artistIds) > 1
              THEN now + BatchDelay ELSE now
    /\ UNCHANGED <<tokenVars, sessions, dbVars, raced, cacheVars>>

\* The provider answers the batch a call waits for.  A rejection is caught
\* and logged; an answer adds its non-null artists and, if there is more
\* than one batch, is followed by the delay.  Then the loop goes on to the
\* next batch, or the function returns allArtists.
GetMultipleArtistsEnd(r, response) ==
    /\ r \in BagToSet(reqs)
    /\ r.kind = "getMultipleArtists"
    /\ LET all == r.allArtists \o BatchArtists(response)
           got == Append(r.got, response)
           more == r.k < NumBatches(r.artistIds)
           next == BatchCall(r.artistIds, r.k + 1, all, got)
       IN  /\ reqs' = IF more
                      THEN (reqs (-) SetToBag({r})) (+) SetToBag({next})
                      ELSE reqs (-) SetToBag({r})
           /\ last' = IF more
                      THEN BatchStep(r.k + 1, Batch(r.artistIds, r.k + 1),
                                     IF response.ok THEN "fetch" ELSE "caught",
                                     <<>>)
                      ELSE BatchStep(0, <<>>, "returned", all)
    /\ now' = IF response.ok /\ NumBatches(r.artistIds) > 1
              THEN now + BatchDelay ELSE now
    /\ UNCHANGED <<tokenVars, sessions, dbVars, raced, cacheVars>>

\* The genres getTopArtists searches, one search each.
NumGenres == 8

\* A genre search keeps the artists more popular than this,
GenreThreshold == 50
\* the search by year those more popular than this;
RecentThreshold == 60
\* the search by year is made with fewer ids than this.
EnoughIds == 30
\* At most this many ids go to the detail fetch.
TopLimit == 50

\* items.forEach(artist => { if (artist.id && artist.popularity > threshold)
\* artistIds.add(artist.id) }): a Set keeps its elements in insertion
\* order, and adding an element it holds changes nothing.
AddIds(artistIds, items, threshold) ==
    LET Passes(i) == items[i].id /= NoId /\ items[i].popularity > threshold
        Added(i) == /\ Passes(i)
                    /\ items[i].id \notin Range(artistIds)
                    /\ \A j \in 1..(i - 1) :
                          Passes(j) => items[j].id /= items[i].id
        added == SelectSeq([i \in 1..Len(items) |-> i], Added)
    IN  artistIds \o [k \in 1..Len(added) |-> items[added[k]].id]

\* One search: its ids are added if it answered with items; a rejection
\* is caught and logged.
SearchIds(artistIds, response, threshold) ==
    IF response.ok /\ response.hasItems
    THEN AddIds(artistIds, response.items, threshold)
    ELSE artistIds

\* for (const genre of genres)
RECURSIVE GenreSearches(_, _)
GenreSearches(artistIds, searches) ==
    IF searches = <<>> THEN artistIds
    ELSE GenreSearches(SearchIds(artistIds, Head(searches), GenreThreshold),
                       Tail(searches))

\* The discovery phase: artistIds before the detail fetch.
Discover(searches, popularSearch) ==
    LET found == GenreSearches(<<>>, searches)
    IN  IF Len(found) < EnoughIds
        THEN SearchIds(found, popularSearch, RecentThreshold)
        ELSE found

\* .filter(artist => artist && artist.id).map(artist => ({id: artist.id,
\* ..., popularity: artist.popularity || 0, ...}))
FormatArtists(detailed) ==
    LET kept == SelectSeq(detailed, LAMBDA a : ~a.isNull /\ a.id /= NoId)
    IN  [i \in 1..Len(kept) |->
           ProviderArtist(kept[i].id,
                          IF kept[i].popularity = NoPopularity
                          THEN 0 ELSE kept[i].popularity)]

\* .sort((a, b) => b.popularity - a.popularity): a stable sort.  An
\* element comes after those more popular and those as popular before it.
SortByPopularity(artists) ==
    LET n == Len(artists)
        Place(i) ==
            Cardinality({j \in 1..n :
                           \/ artists[j].popularity > artists[i].popularity
                           \/ /\ artists[j].popularity = artists[i].popularity
                              /\ j < i}) + 1
    IN  [p \in 1..n |-> artists[CHOOSE i \in 1..n : Place(i) = p]]

\* The popularity the provider reports in the details of an artist.
Popularity(id) == (id * 37) % 101

\* An id the provider has redirected the artist `id` to.
Redirected(id) == id + 1000

\* The provider's answer to /v1/artists?ids=<batch>: rejected; a body
\* without `artists`; every artist asked for; null for every second id;
\* artists without a popularity; the first artist listed twice; the first
\* artist under another id than the one asked for.
DetailModes == {"rejected", "empty", "all", "nulls", "bare", "twice", "other"}

DetailResponse(mode, batch) ==
    LET all == [i \in 1..Len(batch) |->
                  ProviderArtist(batch[i], Popularity(batch[i]))]
    IN  CASE mode = "rejected" -> Rejected
          [] mode = "empty" -> EmptyBody
          [] mode = "all" -> Body(all)
          [] mode = "nulls" ->
                Body([i \in 1..Len(batch) |->
                        IF i % 2 = 0 THEN NullArtist ELSE all[i]])
          [] mode = "bare" ->
                Body([i \in 1..Len(batch) |->
                        ProviderArtist(batch[i], NoPopularity)])
          [] mode = "twice" -> Body(all \o <<all[1]>>)
          [] mode = "other" ->
                Body([all EXCEPT ![1].id = Redirected(batch[1])])

\* getTopArtists(accessToken), the provider answering the genre searches
\* with `searches`, the search by year with `popularSearch` and the detail
\* fetch in the way `mode`.
GetTopArtists(searches, popularSearch, mode) ==
    LET artistIds == Discover(searches, popularSearch)
        artistIdsArray == Slice(artistIds, 0, TopLimit)
        provider == [k \in 1..NumBatches(artistIdsArray) |->
                       DetailResponse(mode, Batch(artistIdsArray, k))]
    IN  IF Len(artistIdsArray) = 0
        THEN [threw |-> TRUE, artists |-> <<>>]
        ELSE [threw |-> FALSE,
              artists |-> SortByPopularity(FormatArtists(
                              GetMultipleArtists(artistIdsArray, provider)))]

\* A call of getTopArtists.  The step records the ids the discovery phase
\* collected, the provider's way of answering the detail fetch and the
\* list returned.
CallGetTopArtists(searches, popularSearch, mode) ==
    /\ LET top == GetTopArtists(searches, popularSearch, mode)
       IN  last' = [Step("getTopArtists", "none", 0, "none",
                         IF top.threw THEN "threw" ELSE "returned", 0)
                      EXCEPT !.list = Range(Discover(searches, popularSearch)),
                             !.source = mode,
                             !.fetched = top.artists]
    /\ UNCHANGED <<now, tokenVars, sessions, dbVars, reqVars, cacheVars>>

\* A plausible slip: the check for too few ids is inside the loop, so that
\* the search by year is made after every genre that leaves fewer than 30.
TopArtistsCallsYearInLoop(searches, popularSearch) ==
    LET short == {g \in 1..Len(searches) :
                    Len(GenreSearches(<<>>, SubSeq(searches, 1, g)))
                      < EnoughIds}
        artistIdsArray == Slice(Discover(searches, popularSearch), 0, TopLimit)
    IN  Len(searches) + Cardinality(short) + NumBatches(artistIdsArray)

\* The provider calls of one run of getTopArtists: a search for every
\* genre, the search by year when fewer than 30 ids were found, and the
\* batches of getMultipleArtists over at most 50 ids (none when no id was
\* found: the function throws before the detail fetch).
TopArtistsCalls(searches, popularSearch) ==
    LET found == GenreSearches(<<>>, searches)
        artistIdsArray == Slice(Discover(searches, popularSearch), 0, TopLimit)
    IN  Len(searches)
          + (IF Len(found) < EnoughIds THEN 1 ELSE 0)
          + NumBatches(artistIdsArray)

\* What the cache keeps of a list getTopArtists returned.  The provider's
\* names are not modelled: every artist is called "artist".
Formatted(artists) ==
    [i \in 1..Len(artists) |-> Artist(artists[i].id, "artist")]

\* refreshCache returns `artists` after a getTopArtists that made
\* `providerCalls` calls; as FinishRefresh, and the step records the calls.
FinishCountedRefresh(c, artists, why, providerCalls) ==
    IF c = "request"
    THEN \E r \in BagToSet(reqs) :
           /\ r.kind \in RefreshKinds
           /\ Resume(r)
           /\ sessions' = IF r.kind = "artists_fallback"
                          THEN Store(r.sid, r.sess)
                          ELSE sessions
           /\ last' = [Http(ArtistsRoute, r.sid, r.ua, 200, "none", why)
                         EXCEPT !.artists = artists, !.source = "global",
                                !.cached = IsCacheValid',
                                !.arg = providerCalls]
    ELSE /\ last' = [Step("refreshCache", c, 0, "none", why, 0)
                       EXCEPT !.artists = artists, !.arg = providerCalls]
         /\ UNCHANGED <<sessions, reqVars>>

\* The getTopArtists of a refresh runs to its end, the provider answering
\* its searches and its detail fetch; refreshCache writes and returns the
\* list, or falls back when the function threw or the list is empty.
RefreshFetchRuns(c, searches, popularSearch, mode) ==
    /\ refresh[c]
    /\ refresh' = [refresh EXCEPT ![c] = FALSE]
    /\ UNCHANGED <<now, tokenVars, fetches, herd, dbVars>>
    /\ LET top == GetTopArtists(searches, popularSearch, mode)
           providerCalls == TopArtistsCalls(searches, popularSearch)
       IN  IF top.threw
           THEN /\ outage' = TRUE
                /\ UNCHANGED cacheFile
                /\ FinishCountedRefresh(c, CachedOrEmpty, "refresh_failed",
                                        providerCalls)
           ELSE IF Len(top.artists) = 0
           THEN /\ outage' = TRUE
                /\ UNCHANGED cacheFile
                /\ FinishCountedRefresh(c, CachedOrEmpty, "no_artists",
                                        providerCalls)
           ELSE /\ cacheFile' = WriteCacheToDisk(Formatted(top.artists), TRUE)
                /\ UNCHANGED outage
                /\ FinishCountedRefresh(c, Formatted(top.artists),
                                        "refreshed", providerCalls)

(***************************************************************************)
(* The specifications.  Each one runs a part of the server from a state    *)
(* the server can be in, with the inputs of its requests drawn from small  *)
(* sets.  A client sends the user-agent "Firefox"; "Chrome" is the header  *)
(* of a request that carries the client's cookie from somewhere else.      *)
(***************************************************************************)
UAs == {"Firefox", "Chrome"}

RestInit ==
    /\ sessions = [s \in Sids |-> NoSession]
    /\ users = <<>>
    /\ comments = {}
    /\ nextCid = 1
    /\ reqs = EmptyBag
    /\ raced = FALSE
    /\ CacheInit
    /\ last = NoStep

Init == TokenInit /\ RestInit

\* The token cache and its callers.
TokenNext ==
    \/ Tick
    \/ \E c \in Callers : GetTokenCall(c)
    \/ \E c \in Callers, e \in ExpiresIn, w \in BOOLEAN : ExchangeOk(c, e, w)
    \/ \E c \in Callers : ExchangeFail(c)

SpecToken == Init /\ [][TokenNext]_vars

\* The provider OAuth flow of one client.
OAuthRoutes ==
    {"GET /auth/spotify", "GET /auth/spotify/callback",
     "POST /api/auth/spotify/logout"}

OAuthNext ==
    \/ \E st \in OAuthStates : AuthSpotify("s1", "Firefox", st)
    \/ \E c \in Codes, st \in QueryStates, e \in QueryErrors :
          CallbackBegin("s1", "Firefox", c, st, e)
    \/ \E r \in BagToSet(reqs), t \in TokenResponses : CallbackOk(r, t)
    \/ \E r \in BagToSet(reqs) : CallbackFail(r)
    \/ SpotifyLogout("s1", "Firefox")
    \/ \E ua \in UAs, route \in OAuthRoutes : UAMismatch("s1", ua, route)

SpecOAuth == Init /\ [][OAuthNext]_vars

\* Registration.
Ann == <<"a", "n", "n">>
Bob == <<"b", "o", "b">>
Cal == <<"c", "a", "l">>
Dee == <<"d", "e", "e">>
Zed == <<"z", "e", "d">>

Password == Str(<<"p", "a", "s", "s", "w", "o", "r", "d">>)
LetMeIn == Str(<<"l", "e", "t", "m", "e", "i", "n", "1">>)
TooShort == Str(<<"p", "w">>)

\* The register requests: <<req.ip, username, password>>.
RegisterInputs ==
    {<<"ip1", Str(Ann), Password>>, <<"ip1", Str(Bob), Password>>,
     <<"ip1", Str(Cal), Password>>, <<"ip1", Str(Dee), Password>>,
     <<"ip2", Str(Zed), Password>>, <<"ip1", Str(<<"A", "n", "n">>), Password>>,
     <<"ip1", Str(<<"a", "b">>), Password>>, <<"ip1", NotAString, Password>>,
     <<"ip1", Str(Ann), TooShort>>}

RegisterNext ==
    \/ \E i \in RegisterInputs :
          RegisterBegin("s1", "Firefox", i[1], i[2], i[3])
    \/ \E r \in BagToSet(reqs) : RegisterEnd(r)

SpecRegister == Init /\ [][RegisterNext]_vars

\* Registration with usernames of every shape: plain, with capitals, with
\* blanks before or after, blank only, too short, not a string.
UsernameInputs ==
    {Str(Ann), Str(<<"A", "n", "n">>), Str(<<" ", "a", "n", "n", " ">>),
     Str(<<" ", " ", "a">>), Str(<<"a", "b", " ">>), Str(<<" ", " ", " ">>),
     Str(<<"a", "b">>), Str(Bob), NotAString}

UsernamesNext ==
    \/ \E username \in UsernameInputs :
          RegisterBegin("s1", "Firefox", "ip1", username, Password)
    \/ \E r \in BagToSet(reqs) : RegisterEnd(r)

SpecUsernames == Init /\ [][UsernamesNext]_vars

\* The OAuth routes with states as crypto.randomBytes gives them: a new
\* state differs from every state a callback in flight carries.
FreshState(st) == \A r \in BagToSet(reqs) : r.state /= st

ReplayNext ==
    \/ \E st \in OAuthStates : FreshState(st) /\ AuthSpotify("s1", "Firefox", st)
    \/ \E c \in Codes, st \in QueryStates, e \in QueryErrors :
          CallbackBegin("s1", "Firefox", c, st, e)
    \/ \E r \in BagToSet(reqs), t \in TokenResponses : CallbackOk(r, t)
    \/ \E r \in BagToSet(reqs) : CallbackFail(r)

SpecReplay == Init /\ [][ReplayNext]_vars

\* Sign-in, from a users table with two accounts.
UserRow(id, username, password, ip) ==
    [id |-> id, username |-> username,
     password_hash |-> Argon2Hash(password), signup_ip |-> ip]

TwoUsers ==
    <<UserRow(1, Ann, Password, "ip1"), UserRow(2, Bob, LetMeIn, "ip1")>>

LoginInit ==
    /\ TokenInit
    /\ sessions = [s \in Sids |-> NoSession]
    /\ users = TwoUsers
    /\ comments = {}
    /\ nextCid = 1
    /\ reqs = EmptyBag
    /\ raced = FALSE
    /\ CacheInit
    /\ last = NoStep

\* The login requests: <<username, password>>.
LoginInputs ==
    {<<Str(Ann), Password>>, <<Str(Ann), LetMeIn>>,
     <<Str(<<" ", "B", "o", "b">>), LetMeIn>>, <<Str(Zed), Password>>,
     <<NotAString, Password>>, <<Str(Ann), NotAString>>}

LoginRoutes == {"POST /api/auth/login", "POST /api/auth/logout"}

LoginNext ==
    \/ \E i \in LoginInputs : LoginBegin("s1", "Firefox", i[1], i[2])
    \/ \E r \in BagToSet(reqs) : LoginEnd(r)
    \/ Logout("s1", "Firefox")
    \/ \E ua \in UAs, route \in LoginRoutes : UAMismatch("s1", ua, route)

SpecLogin == LoginInit /\ [][LoginNext]_vars

\* Comments, from two signed-in sessions.
SignedIn(id, username, ua) ==
    [NoSession EXCEPT !.exists = TRUE,
                      !.user = [id |-> id, username |-> username],
                      !.ua = HashUA(ua)]

CommentsInit ==
    /\ TokenInit
    /\ sessions = [s \in Sids |->
                     IF s = "s1" THEN SignedIn(1, Ann, "Firefox")
                     ELSE SignedIn(2, Bob, "Firefox")]
    /\ users = TwoUsers
    /\ comments = {}
    /\ nextCid = 1
    /\ reqs = EmptyBag
    /\ raced = FALSE
    /\ CacheInit
    /\ last = NoStep

X == <<Run("x", 1)>>

\* The bodies of POST /api/comments: <<title, body>>.
CommentInputs ==
    {<<Txt(X), Txt(X)>>, <<Txt(<<Run(" ", 2)>>), Txt(X)>>,
     <<Txt(<<Run("x", 129)>>), Txt(X)>>, <<NotAText, Txt(X)>>,
     <<Txt(X), Txt(<<Run("x", 4001)>>)>>}

CommentsRoutes == {"POST /api/comments", "DELETE /api/comments/:id"}

CommentsNext ==
    \/ \E s \in Sids, i \in CommentInputs :
          PostComment(s, "Firefox", i[1], i[2])
    \/ \E s \in Sids, id \in 1..nextCid : DeleteComment(s, "Firefox", id)
    \/ \E s \in Sids : GetComments(s, "Firefox")
    \/ \E s \in Sids, ua \in UAs, route \in CommentsRoutes :
          UAMismatch(s, ua, route)

SpecComments == CommentsInit /\ [][CommentsNext]_vars

\* Comments whose fields hold markup: a title of tags only, a body of tags
\* around a blank, a title of 128 ampersands, tags around a word with a
\* body of full length; and two inputs the check refuses.
Tag == Run("<b>", 1)

MarkupInputs ==
    {<<Txt(X), Txt(X)>>,
     <<Txt(<<Run("<b>", 2)>>), Txt(X)>>,
     <<Txt(X), Txt(<<Tag, Run(" ", 1), Tag>>)>>,
     <<Txt(<<Run("&", MaxTitleLength)>>), Txt(X)>>,
     <<Txt(<<Tag, Run("x", 1), Tag>>), Txt(<<Run("x", MaxBodyLength)>>)>>,
     <<Txt(<<Run(" ", 2)>>), Txt(X)>>,
     <<Txt(<<Run("x", MaxTitleLength - 2), Tag>>), Txt(X)>>}

MarkupNext ==
    \/ \E i \in MarkupInputs : PostComment("s1", "Firefox", i[1], i[2])
    \/ GetComments("s1", "Firefox")

SpecMarkup == CommentsInit /\ [][MarkupNext]_vars

\* The auth-gated routes under a client that signed in and loses its
\* session (s1) and a client that never signed in (s2).
GateInit ==
    /\ TokenInit
    /\ sessions = [s \in Sids |->
                     IF s = "s1" THEN SignedIn(1, Ann, "Firefox")
                     ELSE NoSession]
    /\ users = TwoUsers
    /\ comments = {}
    /\ nextCid = 1
    /\ reqs = EmptyBag
    /\ raced = FALSE
    /\ CacheInit
    /\ last = NoStep

GateNext ==
    \/ \E s \in Sids : PostComment(s, "Firefox", Txt(X), Txt(X))
    \/ \E s \in Sids, id \in 1..nextCid : DeleteComment(s, "Firefox", id)
    \/ Logout("s1", "Firefox")
    \/ SessionExpires("s1")
    \/ \E route \in CommentsRoutes : UAMismatch("s1", "Chrome", route)

SpecGate == GateInit /\ [][GateNext]_vars

\* One client's session under requests from two user-agents, over the
\* routes of the three groups (auth, provider OAuth, comments).
UARoutes ==
    {"POST /api/auth/login", "GET /auth/spotify/callback",
     "POST /api/comments"}

UANext ==
    \/ \E ua \in UAs : LoginBegin("s1", ua, Str(Ann), Password)
    \/ \E r \in BagToSet(reqs) : LoginEnd(r)
    \/ \E ua \in UAs : AuthSpotify("s1", ua, "st1")
    \/ \E ua \in UAs : CallbackBegin("s1", ua, "valid_code", "st1", "none")
    \/ \E r \in BagToSet(reqs) :
          CallbackOk(r, [access_token |-> 11, refresh_token |-> 21,
                         expires_in |-> 1])
    \/ \E ua \in UAs : PostComment("s1", ua, Txt(X), Txt(X))
    \/ \E ua \in UAs, route \in UARoutes : UAMismatch("s1", ua, route)

SpecUA == LoginInit /\ [][UANext]_vars

\* One client's session under the three ways of signing in (register,
\* login, the provider callback) and the two logouts, with requests from
\* two user-agents that may overlap.
SignInRoutes ==
    {"POST /api/auth/register", "POST /api/auth/login",
     "GET /auth/spotify/callback"}

SignInNext ==
    \/ \E ua \in UAs : RegisterBegin("s1", ua, "ip1", Str(Cal), Password)
    \/ \E r \in BagToSet(reqs) : RegisterEnd(r)
    \/ \E ua \in UAs : LoginBegin("s1", ua, Str(Ann), Password)
    \/ \E r \in BagToSet(reqs) : LoginEnd(r)
    \/ \E ua \in UAs : AuthSpotify("s1", ua, "st1")
    \/ \E ua \in UAs : CallbackBegin("s1", ua, "valid_code", "st1", "none")
    \/ \E r \in BagToSet(reqs) :
          CallbackOk(r, [access_token |-> 11, refresh_token |-> 21,
                         expires_in |-> 1])
    \/ \E r \in BagToSet(reqs) : CallbackFail(r)
    \/ \E ua \in UAs : Logout("s1", ua)
    \/ \E ua \in UAs : SpotifyLogout("s1", ua)
    \/ \E ua \in UAs, route \in SignInRoutes : UAMismatch("s1", ua, route)

SpecSignIn == LoginInit /\ [][SignInNext]_vars

\* Register and login requests of every outcome on a session that may hold
\* a user, a user-agent hash and a provider token bundle.
RefusalInputs ==
    {<<Str(Ann), Password>>, <<Str(Ann), LetMeIn>>, <<Str(Cal), Password>>,
     <<Str(Cal), TooShort>>}

RefusalsNext ==
    \/ \E i \in RefusalInputs :
          RegisterBegin("s1", "Firefox", "ip1", i[1], i[2])
    \/ \E r \in BagToSet(reqs) : RegisterEnd(r)
    \/ \E i \in RefusalInputs : LoginBegin("s1", "Firefox", i[1], i[2])
    \/ \E r \in BagToSet(reqs) : LoginEnd(r)
    \/ Logout("s1", "Firefox")
    \/ SpotifyLogout("s1", "Firefox")
    \/ \E route \in LoginRoutes : UAMismatch("s1", "Chrome", route)

\* One client signed in both ways, and the two logouts.
BothSession ==
    [SignedIn(1, Ann, "Firefox")
       EXCEPT !.spotifyToken = 11, !.refreshToken = 21,
              !.tokenExpiry = MsPerSecond]

LogoutInit ==
    /\ TokenInit
    /\ sessions = [s \in Sids |-> IF s = "s1" THEN BothSession ELSE NoSession]
    /\ users = TwoUsers
    /\ comments = {}
    /\ nextCid = 1
    /\ reqs = EmptyBag
    /\ raced = FALSE
    /\ CacheInit
    /\ last = NoStep

LogoutRoutes == {"POST /api/auth/logout", "POST /api/auth/spotify/logout"}

LogoutNext ==
    \/ Logout("s1", "Firefox")
    \/ SpotifyLogout("s1", "Firefox")
    \/ LoginBegin("s1", "Firefox", Str(Ann), Password)
    \/ \E r \in BagToSet(reqs) : LoginEnd(r)
    \/ AuthSpotify("s1", "Firefox", "st1")
    \/ CallbackBegin("s1", "Firefox", "valid_code", "st1", "none")
    \/ \E r \in BagToSet(reqs) :
          CallbackOk(r, [access_token |-> 12, refresh_token |-> 22,
                         expires_in |-> 1])
    \/ \E route \in LogoutRoutes : UAMismatch("s1", "Chrome", route)

SpecLogout == LogoutInit /\ [][LogoutNext]_vars

SpecRefusals == LogoutInit /\ [][RefusalsNext]_vars

\* The artist cache's helper functions, from every kind of cache file.
A1 == Artist("a1", "Ann Artist")
A2 == Artist("a2", "Bo Band")
A3 == Artist("a3", Undefined)

ArtistLists == {<<>>, <<A1>>, <<A1, A2>>, <<A2, A1>>, <<A3, A1>>}

CacheFiles ==
    {NoCacheFile, [exists |-> TRUE, text |-> Unparsable],
     [exists |-> TRUE, text |-> JsonStringify(<<A1, A2>>, Boot)]}

CacheFnInit ==
    /\ now = Boot
    /\ tokenFile = NoTokenFile
    /\ calls = [c \in Callers |-> 0]
    /\ exchanges = 0
    /\ overlap = FALSE
    /\ sessions = [s \in Sids |-> NoSession]
    /\ users = <<>>
    /\ comments = {}
    /\ nextCid = 1
    /\ reqs = EmptyBag
    /\ raced = FALSE
    /\ cacheFile \in CacheFiles
    /\ refresh = [c \in Callers |-> FALSE]
    /\ fetches = 0
    /\ outage = FALSE
    /\ herd = FALSE
    /\ last = NoStep

CacheFnNext ==
    \/ \E ms \in WaitSteps : Wait(ms)
    \/ \E a \in ArtistLists, w \in BOOLEAN : CallWriteCacheToDisk(a, w)
    \/ CallIsCacheValid
    \/ CallGetCachedArtists

SpecCache == CacheFnInit /\ [][CacheFnNext]_vars

\* The artists routes of a fresh server: no cache file, no token file, one
\* client that has signed in with the provider and one that has not.
ProviderSession ==
    [NoSession EXCEPT !.exists = TRUE, !.spotifyToken = 11,
                      !.refreshToken = 21,
                      !.tokenExpiry = Boot + MsPerSecond,
                      !.ua = HashUA("Firefox")]

ArtistsInit ==
    /\ now = Boot
    /\ tokenFile = NoTokenFile
    /\ calls = [c \in Callers |-> 0]
    /\ exchanges = 0
    /\ overlap = FALSE
    /\ sessions = [s \in Sids |->
                     IF s = "s1" THEN ProviderSession ELSE NoSession]
    /\ users = <<>>
    /\ comments = {}
    /\ nextCid = 1
    /\ reqs = EmptyBag
    /\ raced = FALSE
    /\ CacheInit
    /\ last = NoStep

\* The server has started and no timer callback is due.
Ready == last.route /= "init" /\ ~TimerDue

\* The clients send one request at a time; the startup refresh and the
\* timer's refresh run beside it.
Idle == Ready /\ Inflight = 0

ArtistsNext ==
    \/ Startup
    \/ Periodic
    \/ Ready /\ \E ms \in WaitSteps : Wait(ms)
    \/ Ready /\ \E c \in Callers : RefreshTokenOk(c, 1, TRUE)
    \/ Ready /\ \E c \in Callers : RefreshTokenFail(c)
    \/ Ready /\ \E c \in Callers, a \in GlobalLists, w \in BOOLEAN :
                  RefreshFetchOk(c, a, w)
    \/ Ready /\ \E c \in Callers : RefreshFetchFail(c)
    \/ Idle /\ \E s \in Sids : ArtistsBegin(s, "Firefox")
    \/ Ready /\ \E r \in BagToSet(reqs), a \in PersonalLists : PersonalOk(r, a)
    \/ Ready /\ \E r \in BagToSet(reqs) : PersonalFail(r)
    \/ Idle /\ \E s \in Sids : ArtistBegin(s, "Firefox")
    \/ Ready /\ \E r \in BagToSet(reqs) : ArtistTokenOk(r, 1, TRUE)
    \/ Ready /\ \E r \in BagToSet(reqs) : ArtistTokenFail(r)
    \/ Ready /\ \E r \in BagToSet(reqs), ok \in BOOLEAN : ArtistEnd(r, ok)

SpecArtists == ArtistsInit /\ [][ArtistsNext]_vars

\* The refreshes of the global list: the startup's, the timer's and those of
\* GET /api/artists requests without a provider token, with a provider
\* whose chart changes between two fetches.
ChartLists ==
    GlobalLists \cup {<<Artist("a2", "Bo Band"), Artist("a4", "Di Duo")>>}

RefreshInit ==
    /\ now = Boot
    /\ tokenFile = NoTokenFile
    /\ calls = [c \in Callers |-> 0]
    /\ exchanges = 0
    /\ overlap = FALSE
    /\ sessions = [s \in Sids |-> NoSession]
    /\ users = <<>>
    /\ comments = {}
    /\ nextCid = 1
    /\ reqs = EmptyBag
    /\ raced = FALSE
    /\ CacheInit
    /\ last = NoStep

RefreshNext ==
    \/ Startup
    \/ Periodic
    \/ Ready /\ \E ms \in WaitSteps : Wait(ms)
    \/ Ready /\ \E c \in Callers : RefreshTokenOk(c, 1, TRUE)
    \/ Ready /\ \E c \in Callers : RefreshTokenFail(c)
    \/ Ready /\ \E c \in Callers, a \in ChartLists, w \in BOOLEAN :
                  RefreshFetchOk(c, a, w)
    \/ Ready /\ \E c \in Callers : RefreshFetchFail(c)
    \/ Idle /\ ArtistsBegin("s2", "Firefox")

SpecRefresh == RefreshInit /\ [][RefreshNext]_vars

\* The server left alone: no request for the artists arrives (a health
\* check may), the clock runs, the timer fires, and the provider answers
\* every call, in less time than the cache's lifetime.
TimePasses ==
    /\ Ready
    /\ \E ms \in WaitSteps :
         /\ ms = Span => \A c \in Callers : ~RefreshOf(c)
         /\ Wait(ms)

TokenArrives ==
    Ready /\ \E c \in Callers, e \in ExpiresIn, w \in BOOLEAN :
               RefreshTokenOk(c, e, w)

ChartArrives ==
    Ready /\ \E c \in Callers, a \in ChartLists : RefreshFetchOk(c, a, TRUE)

PeriodicNext ==
    \/ Startup
    \/ Periodic
    \/ TimePasses
    \/ TokenArrives
    \/ ChartArrives
    \/ Ready /\ Health("s2", "Firefox")

SpecPeriodic ==
    /\ RefreshInit
    /\ [][PeriodicNext]_vars
    /\ WF_vars(Startup)
    /\ WF_vars(Periodic)
    /\ WF_vars(TimePasses)
    /\ WF_vars(TokenArrives)
    /\ WF_vars(ChartArrives)

\* The artist routes and the health check of a server that finds its two
\* cache files in any condition: missing, unreadable, out of date or good.
OldList == <<Artist("a3", "Cy Choir")>>

StartCacheFiles ==
    {NoCacheFile, [exists |-> TRUE, text |-> Unparsable],
     [exists |-> TRUE, text |-> JsonStringify(OldList, Boot)],
     [exists |-> TRUE, text |-> JsonStringify(OldList, Boot + CACHE_DURATION)]}

StartTokenFiles ==
    {NoTokenFile, BadTokenFile,
     [exists |-> TRUE, parses |-> TRUE, token |-> 9, expiry |-> Boot],
     [exists |-> TRUE, parses |-> TRUE, token |-> 9,
      expiry |-> Boot + 2 * CACHE_DURATION]}

DegradedInit ==
    /\ now = Boot + CACHE_DURATION
    /\ tokenFile \in StartTokenFiles
    /\ calls = [c \in Callers |-> 0]
    /\ exchanges = 0
    /\ overlap = FALSE
    /\ sessions = [s \in Sids |-> NoSession]
    /\ users = <<>>
    /\ comments = {}
    /\ nextCid = 1
    /\ reqs = EmptyBag
    /\ raced = FALSE
    /\ cacheFile \in StartCacheFiles
    /\ refresh = [c \in Callers |-> FALSE]
    /\ fetches = 0
    /\ outage = FALSE
    /\ herd = FALSE
    /\ last = NoStep

DegradedNext ==
    \/ Health("s1", "Firefox")
    \/ Inflight = 0 /\ ArtistsBegin("s1", "Firefox")
    \/ Inflight = 0 /\ ArtistBegin("s1", "Firefox")
    \/ \E w \in BOOLEAN : RefreshTokenOk("request", 1, w)
    \/ RefreshTokenFail("request")
    \/ \E a \in GlobalLists, w \in BOOLEAN : RefreshFetchOk("request", a, w)
    \/ RefreshFetchFail("request")
    \/ RefreshFetchEmpty("request")
    \/ \E r \in BagToSet(reqs), w \in BOOLEAN : ArtistTokenOk(r, 1, w)
    \/ \E r \in BagToSet(reqs) : ArtistTokenFail(r)
    \/ \E r \in BagToSet(reqs), ok \in BOOLEAN : ArtistEnd(r, ok)
    \/ \E w \in BOOLEAN : CallWriteCacheToDisk(OldList, w)
    \/ \E w \in BOOLEAN : CallWriteTokenToDisk(9, 1, w)

SpecDegraded == DegradedInit /\ [][DegradedNext]_vars

\* getTopArtists as a function of the provider's answers.  A search answers
\* with n artists of one popularity and consecutive ids.
Items(first, n, popularity) ==
    [i \in 1..n |-> ProviderArtist(first + i - 1, popularity)]

\* The answers to the genre searches: all rejected; twenty other artists
\* for every genre; the same twenty for every genre; artists exactly at the
\* threshold; one rejection, one answer with an artist without id, one just
\* above the threshold and one without popularity; four artists a genre;
\* thirty artists in all; twenty-nine in all; twenty-five from the last
\* genre; twenty from the first.
GenreAnswers ==
    {[g \in 1..NumGenres |-> Rejected],
     [g \in 1..NumGenres |-> Body(Items(20 * (g - 1) + 1, 20, 80))],
     [g \in 1..NumGenres |-> Body(Items(1, 20, 70))],
     [g \in 1..NumGenres |-> Body(Items(20 * (g - 1) + 1, 20, GenreThreshold))],
     [g \in 1..NumGenres |->
        IF g = 1 THEN Rejected
        ELSE IF g = 2
             THEN Body(<<ProviderArtist(NoId, 90),
                         ProviderArtist(7, GenreThreshold + 1),
                         ProviderArtist(8, NoPopularity)>>)
             ELSE EmptyBody],
     [g \in 1..NumGenres |-> Body(Items(4 * (g - 1) + 1, 4, 60 + g))],
     [g \in 1..NumGenres |->
        IF g <= 3 THEN Body(Items(10 * (g - 1) + 1, 10, 95)) ELSE Rejected],
     [g \in 1..NumGenres |->
        IF g <= 3 THEN Body(Items(10 * (g - 1) + 2, 10, 95))
        ELSE IF g = 4 THEN Body(Items(2, 9, 95)) ELSE EmptyBody],
     [g \in 1..NumGenres |->
        IF g = NumGenres THEN Body(Items(41, 25, 75)) ELSE EmptyBody],
     [g \in 1..NumGenres |->
        IF g = 1 THEN Body(Items(190, 20, 100)) ELSE Rejected]}

\* The answers to the search by year.
YearAnswers ==
    {Rejected, EmptyBody,
     Body(Items(201, 50, RecentThreshold + 1)),
     Body(Items(201, 50, RecentThreshold)),
     Body(Items(1, 50, 99))}

\* The function is applied once to each combination of answers.
TopNext ==
    \E searches \in GenreAnswers, popularSearch \in YearAnswers,
       mode \in DetailModes :
        last = NoStep /\ CallGetTopArtists(searches, popularSearch, mode)

SpecTop == Init /\ [][TopNext]_vars

\* GET /api/artists and the startup refresh with a provider that answers
\* every call it is sent, with success or with failure: the token exchange,
\* the personal list, and the searches and the detail fetch of
\* getTopArtists.  A request arrives while the model's counters leave room
\* for the exchange and the getTopArtists run it may need.
Pending == Cardinality({c \in Callers : RefreshOf(c)})

WithinBudget ==
    /\ exchanges < MaxExchanges
    /\ fetches + Pending < MaxFetches

TokenAnswers ==
    /\ Ready
    /\ \E c \in Callers : RefreshTokenOk(c, 1, TRUE) \/ RefreshTokenFail(c)

\* The provider's answers to one getTopArtists run, <<searches,
\* popularSearch, mode>>: every search rejected; thirty artists from the
\* genres and a detail fetch that brings nothing; two artists from the
\* genres and two by year; the same with a detail fetch that brings
\* nothing.
TopRuns ==
    LET few == [g \in 1..NumGenres |->
                  IF g = 1 THEN Body(Items(1, 2, 80)) ELSE EmptyBody]
        enough == [g \in 1..NumGenres |->
                     IF g <= 3 THEN Body(Items(10 * (g - 1) + 1, 10, 80))
                     ELSE Rejected]
    IN  {<<[g \in 1..NumGenres |-> Rejected], Rejected, "all">>,
         <<enough, Rejected, "empty">>,
         <<few, Body(Items(201, 2, RecentThreshold + 1)), "all">>,
         <<few, EmptyBody, "empty">>}

TopAnswers ==
    /\ Ready
    /\ \E c \in Callers, run \in TopRuns :
          RefreshFetchRuns(c, run[1], run[2], run[3])

PersonalAnswers ==
    /\ Ready
    /\ \E r \in BagToSet(reqs) :
          \/ \E a \in PersonalLists : PersonalOk(r, a)
          \/ PersonalFail(r)

ArtistsArrives ==
    Idle /\ WithinBudget /\ \E s \in Sids : ArtistsBegin(s, "Firefox")

TerminationNext ==
    \/ Startup
    \/ Ready /\ Wait(MsPerSecond)
    \/ TokenAnswers
    \/ TopAnswers
    \/ PersonalAnswers
    \/ ArtistsArrives

SpecTermination ==
    /\ ArtistsInit
    /\ [][TerminationNext]_vars
    /\ WF_vars(Startup)
    /\ WF_vars(TokenAnswers)
    /\ WF_vars(TopAnswers)
    /\ WF_vars(PersonalAnswers)

\* getMultipleArtists, called with 0 to 101 ids, one call at a time; the
\* provider answers each batch in one of its ways.
IdCounts == {0, 1, BatchSize, BatchSize + 1, 2 * BatchSize, 2 * BatchSize + 1}

BatchesInit ==
    /\ now = Boot
    /\ tokenFile = NoTokenFile
    /\ calls = [c \in Callers |-> 0]
    /\ exchanges = 0
    /\ overlap = FALSE
    /\ sessions = [s \in Sids |-> NoSession]
    /\ users = <<>>
    /\ comments = {}
    /\ nextCid = 1
    /\ reqs = EmptyBag
    /\ raced = FALSE
    /\ cacheFile = NoCacheFile
    /\ refresh = [c \in Callers |-> FALSE]
    /\ fetches = 0
    /\ outage = FALSE
    /\ herd = FALSE
    /\ last = NoStep

BatchesNext ==
    \/ \E n \in IdCounts :
          /\ Inflight = 0
          /\ now = Boot
          /\ GetMultipleArtistsBegin([i \in 1..n |-> i])
    \/ \E r \in BagToSet(reqs), mode \in DetailModes :
          GetMultipleArtistsEnd(r, DetailResponse(mode, Batch(r.artistIds, r.k)))

SpecBatches == BatchesInit /\ [][BatchesNext]_vars

(***************************************************************************)
(* The claims.                                                             *)
(***************************************************************************)

\* The token bundle of a session.
Bundle(sess) == <<sess.spotifyToken, sess.refreshToken, sess.tokenExpiry>>

\* A step in which a request arrives (no suspended request is resumed).
Arrival == last'.ua /= "none" /\ BagCardinality(reqs') >= BagCardinality(reqs)

\* C1: a callback request whose `state` differs from the session's stored
\* oauthState is answered at once, without reaching the code exchange and
\* without changing the session or leaving a request in flight; and a token
\* bundle enters a stored session only when a callback that did reach the
\* exchange completes and writes its session back (new tokens on success,
\* the copy it loaded on arrival on failure).
C1_MismatchStoresNoToken ==
    [][/\ (/\ Arrival
           /\ last'.route = CallbackRoute
           /\ last'.why /= "ua_mismatch"
           /\ last'.qstate /= sessions[last'.sid].oauthState)
          => /\ sessions' = sessions
             /\ reqs' = reqs
             /\ last'.status = 302
             /\ last'.error \in {"invalid_state", "spotify_auth_failed"}
       /\ \A s \in Sids :
            (Bundle(sessions'[s]) /= Bundle(sessions[s])
               /\ sessions'[s].spotifyToken /= 0)
            => /\ last'.route = CallbackRoute
               /\ last'.why \in {"auth_success", "exchange_failed"}
               /\ last'.why = "exchange_failed"
                  => \E r \in BagToSet(reqs) :
                       Bundle(r.sess) = Bundle(sessions'[s])
               /\ last'.sid = s
               /\ BagCardinality(reqs') < BagCardinality(reqs)]_vars

\* C1 witness: a callback with a valid-looking but wrong state arrived while
\* a state was pending, and the session holds no token.
C1_Witness ==
    /\ last.route = CallbackRoute
    /\ last.why = "state_mismatch"
    /\ last.qstate \in OAuthStates
    /\ sessions[last.sid].oauthState \in OAuthStates
    /\ sessions[last.sid].spotifyToken = 0

\* C2: a request arriving on a session whose stored user-agent hash differs
\* from the hash of its own user-agent destroys the session and is answered
\* 401 SESSION_INVALID; nothing else changes: no handler ran.
C2_UAMismatchDestroys ==
    [][(/\ Arrival
        /\ sessions[last'.sid].ua /= "none"
        /\ sessions[last'.sid].ua /= HashUA(last'.ua))
       => /\ sessions' = [sessions EXCEPT ![last'.sid] = NoSession]
          /\ last'.status = 401
          /\ last'.error = "SESSION_INVALID"
          /\ UNCHANGED <<dbVars, reqVars, tokenVars, cacheVars>>]_vars

\* C2 witness: a signed-in session holding a provider token was destroyed by
\* a request for a comments route.
C2_Witness ==
    /\ last.why = "ua_mismatch"
    /\ last.route = "POST /api/comments"
    /\ sessions[last.sid] = NoSession
    /\ comments /= {}

\* The cache file holds a token that has not expired.
CacheUsable ==
    tokenFile.exists /\ tokenFile.token /= 0 /\ now < tokenFile.expiry

\* C3: a call that returns the cached token does so only while now is before
\* the recorded expiry, and returns the file's token; a call that finds the
\* cache empty or expired starts an exchange, whose token is what it returns.
C3_NoExpiredCachedToken ==
    /\ (last.route = "getToken" /\ last.why = "cache")
       => /\ tokenFile.exists
          /\ now < tokenFile.expiry
          /\ last.token = tokenFile.token
          /\ last.token /= 0
    /\ (last.route = "getToken" /\ last.why = "exchange")
       => /\ ~CacheUsable
          /\ calls[last.sid] = exchanges
    /\ (last.route = "exchange" /\ last.why = "fresh")
       => /\ last.token \in 1..exchanges
          /\ tokenFile.exists /\ tokenFile.expiry <= now
             => last.token /= tokenFile.token

\* C3 witness: the file holds an expired token and the call went to the
\* provider.
C3_Witness ==
    /\ last.route = "getToken"
    /\ last.why = "exchange"
    /\ tokenFile.exists
    /\ tokenFile.expiry <= now

\* C4 as stated: in every interleaving, no exchange is under way while the
\* cached token is unexpired.
C4_NoExchangeWhileCached ==
    \A c \in Callers : calls[c] /= 0 => ~CacheUsable

\* C4 amended: in every interleaving a call returns the cached token exactly
\* when the cache holds an unexpired one, and then starts no exchange; the
\* cached token is the product of an exchange; and as long as no two
\* exchanges were under way together, none is under way while the cached
\* token is unexpired.
C4_ReuseUntilExpiry ==
    /\ last.route = "getToken"
       => /\ (last.why = "cache") = CacheUsable
          /\ last.why = "cache" => last.token = tokenFile.token
          /\ last.why = "cache" => calls[last.sid] = 0
    /\ tokenFile.exists => tokenFile.token \in 1..exchanges
    /\ ~overlap => \A c \in Callers : calls[c] /= 0 => ~CacheUsable

\* C4 witness: without any overlap, the token of the second exchange is
\* reused after the first token's time.
C4_Witness ==
    /\ ~overlap
    /\ last.route = "getToken"
    /\ last.why = "cache"
    /\ last.token = 2
    /\ now >= 2 * MsPerSecond

\* The register request that the step resumes, when at most one is in flight.
Resumed(r) ==
    /\ r \in BagToSet(reqs)
    /\ BagCardinality(reqs') < BagCardinality(reqs)

\* C5: while register requests are handled one after another (none arrives
\* while another is suspended), a valid request from an IP that has fewer
\* than 3 accounts goes on to the insert, which creates exactly one row for
\* that IP and answers 201 when the username is new; a valid request from an
\* IP that has 3 accounts is answered 403 'Account limit reached for this
\* IP' and creates no row; so no IP ever has more than 3 accounts.
C5_FourthSequentialRegisterRejected ==
    [][~raced' =>
        /\ \A ip \in IPs : CountUsersByIP(ip)' <= IpCap
        /\ (/\ Arrival
            /\ last'.route = "POST /api/auth/register"
            /\ last'.why \notin {"ua_mismatch", "invalid"})
           => /\ users' = users
              /\ IF CountUsersByIP(last'.ip) >= IpCap
                 THEN /\ last'.why = "ip_cap"
                      /\ last'.status = 403
                      /\ last'.error = "Account limit reached for this IP"
                      /\ reqs' = reqs
                 ELSE /\ last'.why = "hashing"
                      /\ BagCardinality(reqs') = BagCardinality(reqs) + 1
        /\ \A r \in BagToSet(reqs) :
             (Resumed(r) /\ r.kind = "register")
             => /\ CountUsersByIP(r.ip) < IpCap
                /\ IF GetUserByUsername(r.username.chars) = {}
                   THEN /\ last'.status = 201
                        /\ Len(users') = Len(users) + 1
                        /\ SubSeq(users', 1, Len(users)) = users
                        /\ users'[Len(users')].signup_ip = r.ip
                        /\ users'[Len(users')].username = r.username.chars
                   ELSE /\ last'.status = 409
                        /\ users' = users]_vars

\* C5 witness: three accounts were created from one IP, one request after
\* another, and the fourth request from that IP was answered 403.
C5_Witness ==
    /\ ~raced
    /\ last.route = "POST /api/auth/register"
    /\ last.why = "ip_cap"
    /\ last.status = 403
    /\ CountUsersByIP(last.ip) = IpCap
    /\ Len(users) = IpCap

\* C6: in every reachable state, also with several register requests of one
\* IP suspended at the password hash, the users table holds at most 3 rows
\* with the same signup_ip.
C6_AtMostThreePerIP ==
    \A ip \in IPs : CountUsersByIP(ip) <= IpCap

\* The login route's step was a refusal of the credentials.
LoginRefused(step) ==
    /\ step.route = "POST /api/auth/login"
    /\ step.why \in {"no_user", "bad_password"}

\* C7: login answers 401 'Invalid credentials' both when the username does
\* not exist and when it exists and the password is wrong, and in both
\* cases leaves the stored session (its user included) as it was.
C7_LoginFailuresIndistinguishable ==
    [][LoginRefused(last') =>
        /\ last'.status = 401
        /\ last'.error = "Invalid credentials"
        /\ sessions' = sessions
        /\ users' = users
        /\ last'.why = "no_user" => reqs' = reqs
        /\ last'.why = "bad_password"
           => \E r \in BagToSet(reqs) :
                /\ Resumed(r)
                /\ \E i \in GetUserByUsername(r.username.chars) :
                     ~Argon2Verify(users[i].password_hash, r.password)]_vars

\* C7 witness: an existing username with a wrong password was refused on a
\* session that is signed in, which stays signed in.
C7_Witness ==
    /\ LoginRefused(last)
    /\ last.why = "bad_password"
    /\ last.status = 401
    /\ sessions[last.sid].user /= NoUser

\* The ids of the accounts.
UserIds == {users[i].id : i \in DOMAIN users}

\* A request for the route reached its handler chain.
Handled(route) ==
    /\ Arrival
    /\ last'.route = route
    /\ last'.why /= "ua_mismatch"

\* C8: a POST /api/comments that reaches the handler chain on a session with
\* no local user is answered 401 and leaves the comments table as it was;
\* on a session with a local user who owns fewer than 5 comments, with a
\* title and a body that pass the input check, it is answered 201 and
\* inserts exactly one row, owned by that user: the user's count goes up by
\* exactly 1 and nobody else's count changes.
C8_PostCommentNeedsUser ==
    [][Handled("POST /api/comments") =>
        LET user == sessions[last'.sid].user
        IN  /\ user = NoUser
               => /\ last'.status = 401
                  /\ comments' = comments
            /\ (/\ user /= NoUser
                /\ last'.why /= "invalid"
                /\ CountCommentsByUser(user.id) < CommentCap)
               => /\ last'.status = 201
                  /\ comments \subseteq comments'
                  /\ Cardinality(comments' \ comments) = 1
                  /\ \A c \in comments' \ comments : c.user_id = user.id
                  /\ Cardinality({c \in comments' : c.user_id = user.id})
                       = CountCommentsByUser(user.id) + 1
                  /\ \A u \in UserIds \ {user.id} :
                       CountCommentsByUser(u)' = CountCommentsByUser(u)
            /\ comments' /= comments => last'.status = 201]_vars

\* C8 witness: a session without a local user was refused with 401 while
\* the table holds a comment that an earlier, signed-in request created.
C8_Witness ==
    /\ last.route = "POST /api/comments"
    /\ last.why = "no_user"
    /\ last.status = 401
    /\ sessions[last.sid].user = NoUser
    /\ comments /= {}

\* C9: in every reachable state no user owns more than 5 comments; a create
\* request from a user who owns 5 is answered 403 'Comment limit reached'
\* and inserts nothing, whatever creates and deletes came before.
C9_AtMostFiveComments ==
    [][/\ \A u \in UserIds : CountCommentsByUser(u) <= CommentCap
       /\ \A u \in UserIds : CountCommentsByUser(u)' <= CommentCap
       /\ \A c \in comments' : c.user_id \in UserIds
       /\ (/\ Handled("POST /api/comments")
           /\ sessions[last'.sid].user /= NoUser
           /\ last'.why /= "invalid"
           /\ CountCommentsByUser(sessions[last'.sid].user.id) = CommentCap)
          => /\ last'.status = 403
             /\ last'.error = "Comment limit reached"
             /\ comments' = comments
             /\ nextCid' = nextCid]_vars

\* C9 witness: after six comments were created in all, a user who owns 5
\* of those in the table was refused another.
C9_Witness ==
    /\ last.route = "POST /api/comments"
    /\ last.why = "comment_cap"
    /\ sessions[last.sid].user /= NoUser
    /\ CountCommentsByUser(sessions[last.sid].user.id) = CommentCap
    /\ nextCid > CommentCap + 1

\* The ids of the comments in the table.
CommentIds == {c.id : c \in comments}

\* C10: a DELETE by a signed-in user who does not own the comment is
\* answered 403 and leaves the table as it was; by the owner it is answered
\* 200 and removes exactly that row; a removed comment's id never comes
\* back, and GET /api/comments lists exactly the ids in the table, so it does
\* not list a removed comment; and a row leaves the table only through a
\* DELETE of its id from a session whose user owns it.
C10_OnlyOwnerDeletes ==
    [][/\ Handled("DELETE /api/comments/:id")
          => LET user == sessions[last'.sid].user
                 row == GetCommentById(last'.arg)
             IN  /\ (user /= NoUser /\ row /= {}
                       /\ \A c \in row : c.user_id /= user.id)
                    => /\ last'.status = 403
                       /\ comments' = comments
                 /\ (user /= NoUser /\ row /= {}
                       /\ \A c \in row : c.user_id = user.id)
                    => /\ last'.status = 200
                       /\ comments' = comments \ row
                       /\ Cardinality(row) = 1
       /\ \A c \in comments \ comments' :
            /\ last'.route = "DELETE /api/comments/:id"
            /\ last'.status = 200
            /\ last'.arg = c.id
            /\ sessions[last'.sid].user /= NoUser
            /\ sessions[last'.sid].user.id = c.user_id
            /\ comments \ comments' = {c}
       /\ \A c \in comments' \ comments : c.id >= nextCid
       /\ \A c \in comments : c.id < nextCid
       /\ last'.route = "GET /api/comments" /\ last'.why = "list"
          => last'.list = CommentIds']_vars

\* C10 witness: a user's delete of another user's comment was refused while
\* an earlier comment, deleted by its owner, is missing from the table.
C10_Witness ==
    /\ last.route = "DELETE /api/comments/:id"
    /\ last.why = "not_owner"
    /\ last.status = 403
    /\ GetCommentById(last.arg) /= {}
    /\ \E id \in 1..(nextCid - 1) : GetCommentById(id) = {}

\* C11: a DELETE /api/comments/:id that reaches the route is settled in the
\* order: no local user -> 401, else unknown id -> 404, else not the owner
\* -> 403, else the row is deleted (200); the three refusals leave the
\* comments table as it was.
C11_DeleteOutcomeOrder ==
    [][Handled("DELETE /api/comments/:id") =>
        LET user == sessions[last'.sid].user
            row == GetCommentById(last'.arg)
        IN  /\ last'.status =
                 IF user = NoUser THEN 401
                 ELSE IF row = {} THEN 404
                 ELSE IF \E c \in row : c.user_id /= user.id THEN 403
                 ELSE 200
            /\ last'.status \in {401, 404, 403} => comments' = comments
            /\ last'.status = 200 => comments' = comments \ row
            /\ nextCid' = nextCid]_vars

\* C11 witness: a client that is not signed in asked to delete an id that
\* is not in the table and was answered 401, not 404.
C11_Witness ==
    /\ last.route = "DELETE /api/comments/:id"
    /\ last.status = 401
    /\ last.why = "no_user"
    /\ GetCommentById(last.arg) = {}
    /\ comments /= {}

\* C12: isCacheValid answers true exactly when the cache file exists, is
\* readable and its stored timestamp is less than CACHE_DURATION before the
\* current time; at an age of exactly CACHE_DURATION, and for a missing or
\* unreadable file, it answers false.
C12_IsCacheValidIffYoung ==
    last.route = "isCacheValid"
    => /\ last.cached =
            (/\ cacheFile.exists
             /\ cacheFile.text.parses
             /\ now - cacheFile.text.timestamp < CACHE_DURATION)
       /\ ~cacheFile.exists => ~last.cached
       /\ (cacheFile.exists /\ ~cacheFile.text.parses) => ~last.cached
       /\ (cacheFile.exists /\ cacheFile.text.parses
             /\ now - cacheFile.text.timestamp = CACHE_DURATION)
          => ~last.cached

\* C12 witness: isCacheValid answered false for a readable cache whose age
\* is exactly CACHE_DURATION.
C12_Witness ==
    /\ last.route = "isCacheValid"
    /\ ~last.cached
    /\ cacheFile.exists
    /\ cacheFile.text.parses
    /\ now - cacheFile.text.timestamp = CACHE_DURATION

\* C13: right after a successful writeCacheToDisk(A) the cache reads back as
\* exactly A, in order, with the time of the write as its timestamp, and
\* isCacheValid is true; a getCachedArtists or isCacheValid call that
\* directly follows the write answers accordingly.
C13_WriteThenReadRoundTrip ==
    [][/\ (last'.route = "writeCacheToDisk" /\ last'.why = "written")
          => /\ ReadCacheFromDisk' = [artists |-> Array(last'.artists),
                                      timestamp |-> now]
             /\ GetCachedArtists' = Array(last'.artists)
             /\ IsCacheValid'
       /\ (last.route = "writeCacheToDisk" /\ last.why = "written")
          => /\ last'.route = "getCachedArtists"
                => last'.why = "array" /\ last'.artists = last.artists
             /\ last'.route = "isCacheValid" => last'.cached]_vars

\* C13 witness: a list of two artists, one of them without a name, was
\* written over an older cache and read back.
C13_Witness ==
    /\ last.route = "getCachedArtists"
    /\ last.artists = <<A3, A1>>
    /\ cacheFile.text.timestamp > Boot

\* The cache file is readable and younger than CACHE_DURATION.
CacheFresh ==
    /\ cacheFile.exists
    /\ cacheFile.text.parses
    /\ now - cacheFile.text.timestamp < CACHE_DURATION

\* The list in the cache file, as written.
CacheList ==
    [i \in 1..Len(cacheFile.text.artists) |->
       Artist(cacheFile.text.artists[i][1][2], cacheFile.text.artists[i][2][2])]

\* The step is the arrival of a request for `route` (not the resumption of
\* one that was waiting).
ArrivalOf(route) ==
    /\ last'.route = route
    /\ last'.ua /= "none"
    /\ last'.why /= "ua_mismatch"
    /\ reqs \sqsubseteq reqs'

\* The first lifetime of the cache of a fresh server, with the provider and
\* the disk working.
FirstTTL == ~outage /\ now - Boot < CACHE_DURATION

\* The last step answered GET /api/artists with the global list.
GlobalAnswer ==
    /\ last.route = ArtistsRoute
    /\ last.status = 200
    /\ last.source = "global"

\* C14 as stated: on a fresh server with a reachable provider, by the time
\* GET /api/artists is answered with the global list exactly one global
\* fetch has been made, the startup's included, and no further one is made
\* within the cache's lifetime.
C14_ExactlyOneGlobalFetch ==
    FirstTTL => /\ fetches <= 1
                /\ GlobalAnswer => fetches = 1

\* C14 amended: a GET /api/artists without a provider token that arrives
\* while the cache is valid is answered at once from the cache, with source
\* 'global' and cached true, and makes no provider call; one that arrives
\* while the cache is not valid starts a refresh of its own, also when the
\* startup refresh is still in flight; and as long as no refresh has
\* started while another was in flight, a fresh server with a reachable
\* provider makes at most one global fetch within the cache's first
\* lifetime, and exactly one before its first global answer, which says
\* cached true.
C14_OneFetchUnlessRefreshesOverlap ==
    [][/\ (FirstTTL' /\ ~herd')
          => /\ fetches' <= 1
             /\ GlobalAnswer' => /\ fetches' = 1
                                 /\ last'.cached
                                 /\ last'.artists \in GlobalLists
       /\ (ArrivalOf(ArtistsRoute) /\ sessions[last'.sid].spotifyToken = 0)
          => IF CacheFresh
             THEN /\ last'.status = 200
                  /\ last'.source = "global"
                  /\ last'.cached
                  /\ last'.artists = CacheList
                  /\ UNCHANGED <<fetches, exchanges, reqs, cacheFile,
                                 tokenFile, herd>>
             ELSE /\ last'.status = 0
                  /\ BagCardinality(reqs') = BagCardinality(reqs) + 1
                  /\ \/ fetches' = fetches + 1 /\ exchanges' = exchanges
                     \/ fetches' = fetches /\ exchanges' = exchanges + 1
                  /\ herd' = (herd \/ \E c \in Callers : RefreshOf(c))]_vars

\* C14 witness: the startup refresh filled the cache, and a later request
\* within the lifetime was answered from the cache with one fetch made.
C14_Witness ==
    /\ GlobalAnswer
    /\ last.why = "cache"
    /\ last.cached
    /\ FirstTTL
    /\ ~herd
    /\ fetches = 1
    /\ now > Boot

\* The list refreshCache falls back to when it fails: the cached one, however
\* old, or the empty one.
StaleOrEmpty ==
    IF cacheFile.exists /\ cacheFile.text.parses THEN CacheList ELSE <<>>

\* C15: a GET /api/artists that arrives on a session holding a provider
\* token sends the personal request with that token and answers nothing
\* yet; when the personal fetch succeeds the answer is the user's list with
\* source 'personal' and the session is left as it was; when it fails the
\* answer is the global list with source 'global', from the cache at once if
\* the cache is valid and else after a refresh the request itself starts and
\* waits for, and the session stored with the answer holds no spotifyToken;
\* an answer with source 'personal' never carries anything but the list of
\* a successful personal fetch.
C15_PersonalOrFallback ==
    [][/\ (ArrivalOf(ArtistsRoute) /\ sessions[last'.sid].spotifyToken /= 0)
          => /\ last'.status = 0
             /\ last'.why = "personal_fetch"
             /\ last'.token = sessions[last'.sid].spotifyToken
             /\ \E r \in BagToSet(reqs') \ BagToSet(reqs) :
                  r.kind = "artists_personal" /\ r.sid = last'.sid
             /\ UNCHANGED <<sessions, cacheVars, tokenVars>>
       /\ \A r \in BagToSet(reqs) \ BagToSet(reqs') :
            r.kind = "artists_personal"
            => \/ /\ last'.status = 200
                  /\ last'.source = "personal"
                  /\ last'.artists \in PersonalLists
                  /\ ~last'.cached
                  /\ UNCHANGED <<sessions, cacheVars, tokenVars>>
               \/ /\ CacheFresh
                  /\ last'.status = 200
                  /\ last'.source = "global"
                  /\ last'.artists = CacheList
                  /\ last'.cached
                  /\ sessions'[r.sid] = [r.sess EXCEPT !.spotifyToken = 0]
                  /\ UNCHANGED <<cacheVars, tokenVars>>
               \/ /\ ~CacheFresh
                  /\ last'.status = 0
                  /\ \/ fetches' = fetches + 1 /\ exchanges' = exchanges
                     \/ fetches' = fetches /\ exchanges' = exchanges + 1
                  /\ \E q \in BagToSet(reqs') \ BagToSet(reqs) :
                       /\ q.kind = "artists_fallback"
                       /\ q.sid = r.sid
                       /\ q.sess = [r.sess EXCEPT !.spotifyToken = 0]
                  /\ UNCHANGED <<sessions, cacheFile>>
       /\ \A r \in BagToSet(reqs) \ BagToSet(reqs') :
            r.kind = "artists_fallback"
            => /\ last'.status = 200
               /\ last'.source = "global"
               /\ sessions'[r.sid] = r.sess
               /\ sessions'[r.sid].spotifyToken = 0
               /\ \/ /\ last'.why = "refreshed"
                     /\ last'.artists \in GlobalLists
                  \/ /\ last'.why = "refresh_failed"
                     /\ last'.artists = StaleOrEmpty
                     /\ UNCHANGED cacheFile
       /\ last'.source = "personal"
          => /\ last'.why = "personal"
             /\ last'.artists \in PersonalLists
             /\ \E r \in BagToSet(reqs) \ BagToSet(reqs') :
                  r.kind = "artists_personal"]_vars

\* C15 witness: a personal fetch failed while the cache was not valid, the
\* request's own refresh brought the global list, and the stored session
\* has lost its token.
C15_Witness ==
    /\ GlobalAnswer
    /\ last.why = "refreshed"
    /\ last.sid = "s1"
    /\ last.artists \in GlobalLists
    /\ sessions["s1"].spotifyToken = 0
    /\ sessions["s1"].refreshToken /= 0

\* The last step sent a session's provider token to the provider: the
\* personal list request of GET /api/artists or the two requests of
\* GET /api/artists/:id.
SessionTokenSent ==
    /\ last.why \in {"personal_fetch", "detail_fetch_session"}
    /\ last.token /= 0
    /\ last.token = sessions[last.sid].spotifyToken

\* C16 as stated: the session's provider token is sent to the provider only
\* while the current time is before the session's recorded tokenExpiry.
C16_SessionTokenSentOnlyBeforeExpiry ==
    SessionTokenSent => now < sessions[last.sid].tokenExpiry

\* The step is a request for `route` that passed the user-agent check.
Served(route) ==
    /\ last'.route = route
    /\ last'.why /= "ua_mismatch"
    /\ last'.ua /= "none"

\* C17: POST /api/auth/logout changes nothing in the server's sessions but
\* the `user` field of the request's session, which it removes, so that
\* spotifyToken, refreshToken and tokenExpiry stay as they were; and
\* POST /api/auth/spotify/logout changes nothing but those three fields,
\* which it removes, so that `user` stays as it was.
C17_LogoutsAreIndependent ==
    [][/\ Served("POST /api/auth/logout")
          => /\ sessions' = [sessions EXCEPT ![last'.sid].user = NoUser]
             /\ Bundle(sessions'[last'.sid]) = Bundle(sessions[last'.sid])
             /\ last'.status = 200
       /\ Served("POST /api/auth/spotify/logout")
          => /\ sessions' = [sessions EXCEPT ![last'.sid].spotifyToken = 0,
                                             ![last'.sid].refreshToken = 0,
                                             ![last'.sid].tokenExpiry = 0]
             /\ sessions'[last'.sid].user = sessions[last'.sid].user
             /\ last'.status = 200]_vars

\* C17 witness: the local logout has just removed the user of the session
\* that was signed in both ways, and the provider fields are still there.
C17_Witness ==
    /\ last.route = "POST /api/auth/logout"
    /\ last.status = 200
    /\ sessions["s1"].user = NoUser
    /\ Bundle(sessions["s1"]) = Bundle(BothSession)

\* C17 second case: the provider logout has just removed the three provider
\* fields, and the local user is still there.
C17_SpotifyLogoutReached ==
    /\ last.route = "POST /api/auth/spotify/logout"
    /\ last.status = 200
    /\ sessions["s1"].user = BothSession.user
    /\ Bundle(sessions["s1"]) = Bundle(NoSession)

\* The step is the answer to an explicit logout request.
LogoutServed ==
    \/ Served("POST /api/auth/logout")
    \/ Served("POST /api/auth/spotify/logout")

C18_MismatchReached ==
    /\ last.why = "ua_mismatch"
    /\ last.cleared
    /\ sessions["s1"] = NoSession

\* The last step answered a GET /auth/spotify/callback that got as far as
\* the state check.
CallbackChecked ==
    /\ last.route = CallbackRoute
    /\ last.status = 302
    /\ last.why \in {"state_mismatch", "auth_success", "exchange_failed"}

\* C19 as stated: after a call to GET /auth/spotify/callback, whether the
\* state matched or not, the session holds no pending oauthState.
C19_CallbackDiscardsState ==
    CallbackChecked => sessions[last.sid].oauthState = "none"

\* The step answers the suspended request r.
Answered(r) == reqs' = reqs (-) SetToBag({r})

\* C20: a callback that passed the state check and whose code exchange
\* succeeds stores the access token, the refresh token, the absolute expiry
\* now + expires_in * 1000 and the hash of its user-agent in the session in
\* one step (the session is not written when the copy the request loaded
\* held exactly these four values already), and redirects without an error;
\* a callback that carries a provider error changes no session, starts no
\* exchange and redirects to the error URL spotify_auth_failed; a callback
\* whose exchange fails
\* stores no token of that exchange (it leaves the stored session alone or
\* writes back the bundle and the hash it loaded) and redirects to
\* token_exchange_failed.
C20_TokensStoredTogetherOrNotAtAll ==
    [][/\ \A r \in BagToSet(reqs) :
            (Answered(r) /\ r.kind = "callback" /\ last'.why = "auth_success")
            => /\ \E t \in TokenResponses :
                    LET four == [r.sess EXCEPT
                                   !.spotifyToken = t.access_token,
                                   !.refreshToken = t.refresh_token,
                                   !.tokenExpiry = now + t.expires_in * 1000,
                                   !.ua = HashUA(r.ua)]
                    IN  /\ four.spotifyToken /= 0
                        /\ \/ sessions'[r.sid] = [four EXCEPT !.exists = TRUE]
                           \/ /\ four = [r.sess EXCEPT !.oauthState = r.state]
                              /\ sessions' = sessions
               /\ last'.status = 302
               /\ last'.error = "none"
       /\ \A r \in BagToSet(reqs) :
            (Answered(r) /\ r.kind = "callback"
             /\ last'.why = "exchange_failed")
            => /\ \/ sessions' = sessions
                  \/ /\ Bundle(sessions'[r.sid]) = Bundle(r.sess)
                     /\ sessions'[r.sid].ua = r.sess.ua
               /\ Bundle(sessions[r.sid]) = Bundle(r.sess)
                  => Bundle(sessions'[r.sid]) = Bundle(sessions[r.sid])
               /\ last'.status = 302
               /\ last'.error = "token_exchange_failed"
       /\ last'.why = "provider_error"
          => /\ UNCHANGED <<sessions, reqs, exchanges>>
             /\ last'.status = 302
             /\ last'.error = "spotify_auth_failed"
       /\ (last'.route = CallbackRoute
           /\ Bundle(sessions'[last'.sid]) /= Bundle(sessions[last'.sid]))
          => last'.why \in {"auth_success", "exchange_failed", "ua_mismatch"}]_vars

\* C20 witness: a callback has just stored the four values together.
C20_Witness ==
    /\ last.route = CallbackRoute
    /\ last.why = "auth_success"
    /\ sessions["s1"].spotifyToken = 12
    /\ sessions["s1"].refreshToken = 22
    /\ sessions["s1"].tokenExpiry = now + 2 * MsPerSecond
    /\ sessions["s1"].ua = HashUA("Firefox")

\* C20 second case: a callback's exchange has failed and the session holds
\* no token.
C20_ExchangeFailedReached ==
    /\ last.route = CallbackRoute
    /\ last.why = "exchange_failed"
    /\ last.error = "token_exchange_failed"
    /\ Bundle(sessions["s1"]) = Bundle(NoSession)

\* C20 third case: a callback with a provider error was turned away.
C20_ProviderErrorReached ==
    /\ last.route = CallbackRoute
    /\ last.why = "provider_error"
    /\ last.error = "spotify_auth_failed"

\* The artist-cache file is missing, unreadable or corrupt.
CacheUnreadable == ~cacheFile.exists \/ ~cacheFile.text.parses

\* The token-cache file is missing, unreadable or corrupt.
TokenUnreadable == ~tokenFile.exists \/ ~tokenFile.parses

\* C21: while the artist-cache file is missing, unreadable or corrupt,
\* readCacheFromDisk returns the empty value, isCacheValid is false and
\* getCachedArtists is null; while the token-cache file is, readTokenFromDisk
\* returns the empty value and no token is taken from it; GET /api/health
\* then answers 200 with cache status 'expired' and artist count 0, and a
\* GET /api/artists starts a refresh (with a client-credentials exchange if
\* the token file gives no token) and is answered 200 when the refresh
\* ends; no step of either route answers with an error status.
C21_ReadFailureIsCacheMiss ==
    [][/\ CacheUnreadable
          => /\ ReadCacheFromDisk = NoCache
             /\ ~IsCacheValid
             /\ GetCachedArtists = Null
       /\ TokenUnreadable
          => /\ ReadTokenFromDisk = NoToken
             /\ CachedToken = 0
       /\ last'.route \in {ArtistsRoute, HealthRoute}
          => last'.status \in {0, 200}
       /\ (ArrivalOf(HealthRoute) /\ CacheUnreadable)
          => /\ last'.status = 200
             /\ last'.why = "expired"
             /\ last'.arg = 0
             /\ ~last'.cached
       /\ (ArrivalOf(ArtistsRoute) /\ CacheUnreadable)
          => /\ last'.status = 0
             /\ last'.why = "refreshing"
             /\ IF TokenUnreadable
                THEN exchanges' = exchanges + 1 /\ fetches' = fetches
                ELSE \/ exchanges' = exchanges + 1 /\ fetches' = fetches
                     \/ exchanges' = exchanges /\ fetches' = fetches + 1
       /\ \A r \in BagToSet(reqs) :
            (Answered(r) /\ r.kind = "artists_refresh")
            => /\ last'.status = 200
               /\ last'.source = "global"
               /\ last'.why = "refresh_failed" /\ CacheUnreadable
                  => last'.artists = <<>>]_vars

\* C21 witness: with both files corrupt and the provider failing, GET
\* /api/artists was answered 200 with the empty list.
C21_Witness ==
    /\ cacheFile.exists
    /\ CacheUnreadable
    /\ tokenFile = BadTokenFile
    /\ last.route = ArtistsRoute
    /\ last.status = 200
    /\ last.why = "refresh_failed"
    /\ last.artists = <<>>

\* C21 second case: the health check answered on a corrupt cache file.
C21_HealthReached ==
    /\ cacheFile.exists
    /\ CacheUnreadable
    /\ last.route = HealthRoute
    /\ last.status = 200
    /\ last.why = "expired"

\* The artist-cache file as a successful write of `artists` at the current
\* time leaves it.
Written(artists) == [exists |-> TRUE, text |-> JsonStringify(artists, now)]

\* The token-cache file as a successful write leaves it.
TokenWritten(token, expiresIn) ==
    [exists |-> TRUE, parses |-> TRUE, token |-> token,
     expiry |-> now + expiresIn * 1000]

\* C22: writeCacheToDisk and writeTokenToDisk report a failed write by
\* their return value alone and leave the file as it was; a refresh whose
\* fetch brought a list returns that list whether or not its write
\* succeeded, and the GET /api/artists that waited for it is answered 200
\* with it; a token acquisition whose exchange succeeded hands the new
\* token on whether or not its write succeeded, and the caller goes on to
\* its provider request with it.
C22_WriteFailureDoesNotAbort ==
    [][/\ last'.route = "writeCacheToDisk"
          => /\ \/ last'.why = "written" /\ cacheFile' = Written(last'.artists)
                \/ last'.why = "failed" /\ cacheFile' = cacheFile
             /\ last'.status = 0
             /\ UNCHANGED <<tokenFile, reqs, sessions>>
       /\ last'.route = "writeTokenToDisk"
          => /\ \/ /\ last'.why = "written"
                   /\ \E e \in ExpiresIn :
                        tokenFile' = TokenWritten(last'.token, e)
                \/ last'.why = "failed" /\ tokenFile' = tokenFile
             /\ last'.status = 0
             /\ UNCHANGED <<cacheFile, reqs, sessions>>
       /\ \A c \in Callers :
            (refresh[c] /\ ~refresh'[c] /\ last'.fetched /= <<>>)
            => /\ last'.artists = last'.fetched
               /\ last'.why = "refreshed"
               /\ \/ cacheFile' = Written(last'.artists)
                  \/ cacheFile' = cacheFile
               /\ c = "request"
                  => /\ last'.route = ArtistsRoute
                     /\ last'.status = 200
                     /\ last'.source = "global"
                     /\ last'.cached = CacheFresh'
       /\ \A c \in Callers :
            (calls[c] /= 0 /\ calls'[c] = 0
             /\ last'.why \in {"fresh", "detail_fetch_client"})
            => /\ last'.token = calls[c]
               /\ \/ \E e \in ExpiresIn :
                       tokenFile' = TokenWritten(calls[c], e)
                  \/ tokenFile' = tokenFile
               /\ \/ refresh'[c] /\ fetches' = fetches + 1
                  \/ \E r \in BagToSet(reqs') : r.kind = "artist_detail"]_vars

\* C22 witness: the token write and the cache write both failed, and GET
\* /api/artists was answered 200 with the fetched list.
C22_Witness ==
    /\ cacheFile = [exists |-> TRUE, text |-> Unparsable]
    /\ tokenFile = BadTokenFile
    /\ exchanges = 1
    /\ last.route = ArtistsRoute
    /\ last.status = 200
    /\ last.why = "refreshed"
    /\ last.artists \in GlobalLists
    /\ ~last.cached

\* The last step answered a request whose provider call had failed: the
\* refresh GET /api/artists waited for, or the token or the two fetches of
\* GET /api/artists/:id.
ProviderFailedAnswer ==
    /\ last.route \in {ArtistsRoute, ArtistRoute}
    /\ last.ua /= "none"
    /\ last.why \in {"refresh_failed", "token_failed", "detail_failed"}

\* C23 as stated: when the provider fails during a request that needs a
\* provider call, the caller receives a 500: GET /api/artists with an
\* invalid cache and a failing refresh, and GET /api/artists/:id with a
\* failing provider fetch.
C23_ProviderFailureAnswers500 ==
    ProviderFailedAnswer => last.status = 500

\* The step `step` answered a request of session s on an auth-gated route
\* with 401.
Gate401(step, s) ==
    /\ step.sid = s
    /\ step.status = 401
    /\ step.route \in CommentsRoutes

\* C24 as stated: the 401 of an auth-gated route carries a code that tells
\* a session that never signed in from one that expired or was invalidated:
\* when a 401 to the client whose session was signed in and then lost (s1)
\* is followed by a 401 to the client that never signed in (s2), the two
\* error codes differ.
C24_CodesTellNeverFromInvalidated ==
    [][(Gate401(last, "s1") /\ Gate401(last', "s2"))
         => last'.error /= last.error]_vars

\* The step ends a refresh to which getTopArtists delivered a list.
RefreshDelivered ==
    /\ \E c \in Callers : refresh[c] /\ ~refresh'[c]
    /\ last'.fetched /= <<>>

\* No refresh is in flight.
RefreshesDone == \A c \in Callers : ~RefreshOf(c)

\* C25: under every interleaving of the startup's, the timer's and the
\* requests' refreshes, the artist-cache file is missing or holds the whole
\* list one refresh got from the provider with the time of that write; the
\* file changes only in the step that ends a refresh that got a list, which
\* replaces list and timestamp together whatever the file held; so once all
\* refreshes have ended the file holds what the last writer wrote.
C25_CacheIsOneWholeRefresh ==
    [][/\ \/ cacheFile' = NoCacheFile
          \/ /\ cacheFile'.exists
             /\ cacheFile'.text.parses
             /\ \E a \in ChartLists :
                  /\ cacheFile'.text
                       = JsonStringify(a, cacheFile'.text.timestamp)
                  /\ ReadCacheFromDisk'.artists = Array(a)
             /\ cacheFile'.text.timestamp \in Boot..now'
       /\ cacheFile' /= cacheFile
          => /\ RefreshDelivered
             /\ cacheFile' = Written(last'.fetched)
       /\ RefreshDelivered
          => /\ last'.fetched \in ChartLists
             /\ \/ cacheFile' = Written(last'.fetched)
                \/ cacheFile' = cacheFile /\ outage'
             /\ now' = now]_vars

\* C25 witness: two refreshes overlapped, both wrote, and with all refreshes
\* ended the file holds the list and the time of the one that wrote last.
C25_Witness ==
    /\ herd
    /\ ~outage
    /\ fetches = 2
    /\ RefreshesDone
    /\ last.fetched = <<Artist("a2", "Bo Band"), Artist("a4", "Di Duo")>>
    /\ cacheFile = Written(last.fetched)
    /\ now > Boot

\* The cache file holds a list that is CACHE_DURATION old or older.
CacheExpired ==
    /\ cacheFile.exists
    /\ cacheFile.text.parses
    /\ now - cacheFile.text.timestamp >= CACHE_DURATION

\* C26: the timer's callback runs at every whole multiple of CACHE_DURATION
\* after the start and at no other time; it starts a refresh when the cache
\* is not valid at that moment and starts nothing when it is; and with the
\* provider answering every call and no request arriving, a cache that has
\* expired is refreshed in the end.
C26_PeriodicRefreshesExpiredCache ==
    /\ [][/\ last'.route = "periodic"
             => /\ now > Boot
                /\ (now - Boot) % CACHE_DURATION = 0
                /\ now' = now
                /\ UNCHANGED cacheFile
                /\ IF CacheFresh
                   THEN /\ last'.why = "cache_valid"
                        /\ UNCHANGED <<fetches, exchanges, calls, refresh>>
                   ELSE /\ last'.why = "refreshing"
                        /\ RefreshOf("periodic")'
                        /\ \/ fetches' = fetches + 1 /\ exchanges' = exchanges
                           \/ fetches' = fetches /\ exchanges' = exchanges + 1
          /\ now' /= now
             => /\ now' > now
                /\ \/ (now' - Boot) \div CACHE_DURATION
                        = (now - Boot) \div CACHE_DURATION
                   \/ /\ (now' - Boot) % CACHE_DURATION = 0
                      /\ (now' - Boot) \div CACHE_DURATION
                           = ((now - Boot) \div CACHE_DURATION) + 1
                      /\ TimerDue'
          /\ TimerDue => last'.route = "periodic"]_vars
    /\ (CacheExpired ~> CacheFresh)

\* C26 witness: the timer found the cache expired and its refresh has
\* written a new one, with no request made.
C26_Witness ==
    /\ last.route = "refreshCache"
    /\ last.sid = "periodic"
    /\ last.why = "refreshed"
    /\ CacheFresh
    /\ cacheFile.text.timestamp = Boot + CACHE_DURATION
    /\ reqs = EmptyBag

\* C26 second case: the timer found the cache valid and started nothing.
C26_ValidAtTickReached ==
    /\ last.route = "periodic"
    /\ last.why = "cache_valid"
    /\ CacheFresh
    /\ RefreshesDone

\* getTopArtists has returned a list.
TopReturned == last.route = "getTopArtists" /\ last.why = "returned"

SortedByPopularity(artists) ==
    \A i, j \in 1..Len(artists) :
        i < j => artists[i].popularity >= artists[j].popularity

NoDuplicateId(artists) ==
    \A i, j \in 1..Len(artists) : i /= j => artists[i].id /= artists[j].id

\* C27: whatever the provider answers to the searches and to the detail
\* fetch, the list getTopArtists returns is sorted by non-increasing
\* popularity, has at most 50 entries, holds no artist id twice and holds
\* only ids the discovery phase collected.
C27_TopArtistsSortedCappedUnique ==
    TopReturned =>
        /\ SortedByPopularity(last.fetched)
        /\ Len(last.fetched) <= TopLimit
        /\ NoDuplicateId(last.fetched)
        /\ \A i \in 1..Len(last.fetched) : last.fetched[i].id \in last.list

\* The part of C27 that holds for every answer: the list is sorted.
C27_SortedOnly == TopReturned => SortedByPopularity(last.fetched)

\* A provider that answers the detail fetch with at most one artist for
\* each id asked for, under that id.
C27_OneArtistPerId ==
    TopReturned /\ last.source \notin {"twice", "other"} =>
        /\ Len(last.fetched) <= TopLimit
        /\ NoDuplicateId(last.fetched)
        /\ \A i \in 1..Len(last.fetched) : last.fetched[i].id \in last.list

\* The cap cut the discovered ids, and the list came back full.
C27_CapReached ==
    /\ TopReturned
    /\ Cardinality(last.list) > TopLimit
    /\ Len(last.fetched) = TopLimit

\* The ids of the k-th run of fifty of a list of ids.
RunOfIds(artistIds, k) ==
    {artistIds[i] : i \in {j \in 1..Len(artistIds) :
                             (k - 1) * BatchSize < j /\ j <= k * BatchSize}}

\* The non-null artists of the answers that were not rejected, in order.
RECURSIVE ArtistsOfAnswers(_)
ArtistsOfAnswers(got) ==
    IF got = <<>> THEN <<>>
    ELSE (IF Head(got).ok
          THEN SelectSeq(Head(got).items, LAMBDA a : ~a.isNull)
          ELSE <<>>) \o ArtistsOfAnswers(Tail(got))

\* The answers the provider can give to the batch a call waits for.
AnswersTo(r) ==
    {DetailResponse(mode, Batch(r.artistIds, r.k)) : mode \in DetailModes}

\* C28: getMultipleArtists asks for the ids in consecutive batches of at
\* most 50, one batch at a time and in order: the first when it is called,
\* the next one only when the one before has been answered or rejected.  A
\* rejected batch adds nothing and the loop goes on, so the function
\* returns only after its last batch, and returns exactly the non-null
\* artists of the answers that were not rejected, in batch order.
C28_BatchesInOrderFailuresSkipped ==
    [][/\ \A c \in BagToSet(reqs') :
            /\ BagCardinality(reqs') = 1
            /\ c.k \in 1..NumBatches(c.artistIds)
            /\ Len(c.got) = c.k - 1
            /\ last'.arg = c.k
            /\ last'.list = RunOfIds(c.artistIds, c.k)
            /\ Cardinality(last'.list) \in 1..BatchSize
            /\ reqs = EmptyBag => c.k = 1
       /\ \A r \in BagToSet(reqs) :
            \E response \in AnswersTo(r) :
              LET got == Append(r.got, response)
              IN  IF r.k * BatchSize < Len(r.artistIds)
                  THEN /\ reqs' = SetToBag({[r EXCEPT !.k = r.k + 1,
                                                      !.got = got,
                                                      !.allArtists =
                                                         ArtistsOfAnswers(got)]})
                       /\ last'.why \in {"fetch", "caught"}
                  ELSE /\ reqs' = EmptyBag
                       /\ last'.why = "returned"
                       /\ last'.fetched = ArtistsOfAnswers(got)
       /\ last'.why = "returned" /\ reqs = EmptyBag =>
            last'.fetched = <<>> /\ reqs' = EmptyBag]_vars

\* A call with three batches whose second batch was rejected has returned
\* the artists of the first and the third.
C28_Witness ==
    /\ last.route = "getMultipleArtists"
    /\ last.why = "returned"
    /\ {last.fetched[i].id : i \in 1..Len(last.fetched)}
         = (1..BatchSize) \cup {2 * BatchSize + 1}

\* C29: every username in the users table is at least 3 characters long,
\* is in lower case and is the username of no other row, whatever strings
\* the register requests carried (blanks before or after included).
C29_UsernamesUniqueLowercaseMin3 ==
    \A i \in DOMAIN users :
        /\ Len(users[i].username) >= MinUsernameLength
        /\ ToLowerCase(users[i].username) = users[i].username
        /\ \A j \in DOMAIN users : j /= i => users[j].username /= users[i].username

\* The part of C29 that holds: stored usernames are unique, in lower case
\* and without blanks at either end.
C29_UniqueLowercaseTrimmed ==
    \A i \in DOMAIN users :
        /\ ToLowerCase(users[i].username) = users[i].username
        /\ Trim(users[i].username) = users[i].username
        /\ \A j \in DOMAIN users : j /= i => users[j].username /= users[i].username

\* A second registration of a name that differs only in case or blanks
\* has been refused.
C29_DuplicateRefused ==
    /\ last.route = "POST /api/auth/register"
    /\ last.status = 409
    /\ \E i \in DOMAIN users : users[i].username = Ann

\* A text without tags.
NoMarkup(runs) == \A i \in 1..Len(runs) : runs[i].ch /= "<b>"

\* C30: every stored comment has a title of 1 to 128 characters and a body
\* of 1 to 4000 characters, both non-empty after trimming and without
\* markup, whatever accepted input it was made from (inputs that are
\* markup only included).
C30_StoredCommentsWithinLimits ==
    \A c \in comments :
        /\ TextLength(c.title) \in 1..MaxTitleLength
        /\ TextLength(c.body) \in 1..MaxBodyLength
        /\ TrimText(c.title) /= <<>>
        /\ TrimText(c.body) /= <<>>
        /\ NoMarkup(c.title)
        /\ NoMarkup(c.body)

\* The part of C30 that holds: no stored field holds markup.
C30_NoMarkupStored ==
    \A c \in comments : NoMarkup(c.title) /\ NoMarkup(c.body)

\* A title of tags around a word has been stored as the word.
C30_TagsStripped ==
    /\ last.route = "POST /api/comments"
    /\ last.status = 201
    /\ \E c \in comments :
          c.title = X /\ TextLength(c.body) = MaxBodyLength

\* C31: GET /api/artists/:id answers 200 only when the provider fetches it
\* started in this request have ended; it asks the provider with the
\* session's token when the session has one, and otherwise with a
\* client-credentials token (the one on disk, or one it exchanges for);
\* and no step of the route changes the artist cache or starts a refresh.
C31_DetailsAlwaysFetchedCacheUntouched ==
    [][Served(ArtistRoute) =>
         /\ cacheVars' = cacheVars
         /\ last'.why = "detail_fetch_session" =>
              /\ sessions[last'.sid].spotifyToken /= 0
              /\ last'.token = sessions[last'.sid].spotifyToken
         /\ last'.why = "detail_fetch_client" =>
              /\ sessions[last'.sid].spotifyToken = 0
              /\ last'.token \in 1..exchanges
              /\ last'.token \in {CachedToken, calls["request"]}
         /\ last'.why = "token_exchange" =>
              /\ sessions[last'.sid].spotifyToken = 0
              /\ CachedToken = 0
         /\ last'.status = 0 =>
              \E r \in BagToSet(reqs') :
                  /\ r.sid = last'.sid
                  /\ r.kind = IF last'.why = "token_exchange"
                              THEN "artist_token" ELSE "artist_detail"
         /\ last'.status = 200 =>
              \E r \in BagToSet(reqs) :
                  r.kind = "artist_detail" /\ r.sid = last'.sid /\ Answered(r)
         /\ last'.status \in {0, 200, 500}]_vars

\* The details were answered 200 on a server whose artist cache is not
\* valid, for a session without a provider token.
C31_Witness ==
    /\ last.route = ArtistRoute
    /\ last.status = 200
    /\ last.sid = "s2"
    /\ ~CacheFresh

\* The details were asked for with the session's token.
C31_SessionTokenUsed ==
    /\ last.route = ArtistRoute
    /\ last.why = "detail_fetch_session"
    /\ last.token = ProviderSession.spotifyToken

\* C32: a register request that passed the input check and the per-IP cap
\* and whose username is in no row when the insert runs is answered 201,
\* adds exactly one row to the users table (the earlier rows stay as they
\* are) and leaves its session with user.id equal to the new row's id and
\* user.username equal to the new row's username, which is in lower case;
\* and a 201 is given to no other register request.
C32_RegisterCreatesOneRowAndSignsIn ==
    [][/\ \A r \in BagToSet(reqs) :
            r.kind = "register" /\ Answered(r)
                /\ GetUserByUsername(r.username.chars) = {} =>
              /\ last'.status = 201
              /\ Len(users') = Len(users) + 1
              /\ SubSeq(users', 1, Len(users)) = users
              /\ users'[Len(users')].id = Len(users')
              /\ users'[Len(users')].signup_ip = r.ip
              /\ sessions'[r.sid].exists
              /\ sessions'[r.sid].user.id = users'[Len(users')].id
              /\ sessions'[r.sid].user.username = users'[Len(users')].username
              /\ ToLowerCase(users'[Len(users')].username)
                   = users'[Len(users')].username
              /\ \A s \in Sids \ {r.sid} : sessions'[s] = sessions[s]
       /\ last'.route = "POST /api/auth/register" /\ last'.status = 201 =>
            \E r \in BagToSet(reqs) :
                /\ r.kind = "register"
                /\ Answered(r)
                /\ GetUserByUsername(r.username.chars) = {}
       /\ last'.route = "POST /api/auth/register" /\ last'.status /= 201 =>
            users' = users]_vars

\* A second account has been created and its session signed in as it.
C32_Witness ==
    /\ last.route = "POST /api/auth/register"
    /\ last.status = 201
    /\ Len(users) = 2
    /\ sessions[last.sid].user = [id |-> 2, username |-> users[2].username]

\* C33: a provider token enters a session only through a callback that
\* carried the state a GET /auth/spotify had stored in that session; a
\* callback on a session without a pending oauthState (a callback without
\* a `state` parameter included) stores no token.
C33_TokenOnlyThroughPendingState ==
    [][\A s \in Sids :
         sessions'[s].spotifyToken /= 0
             /\ sessions'[s].spotifyToken /= sessions[s].spotifyToken =>
           \E r \in BagToSet(reqs) :
               /\ r.kind = "callback"
               /\ r.sid = s
               /\ Answered(r)
               /\ r.state \in OAuthStates]_vars

\* The part of C33 that holds: a callback that carries a state parameter
\* stores a token only if that state was pending in its session when it
\* arrived, and a token enters a session in no other way than a callback.
C33_StatedCallbacksNeedPendingState ==
    [][/\ last'.route = CallbackRoute /\ last'.why = "exchanging"
            /\ last'.qstate /= "none" =>
              sessions[last'.sid].oauthState = last'.qstate
       /\ \A s \in Sids :
            sessions'[s].spotifyToken /= 0
                /\ sessions'[s].spotifyToken /= sessions[s].spotifyToken =>
              \E r \in BagToSet(reqs) :
                  r.kind = "callback" /\ r.sid = s /\ Answered(r)]_vars

\* A callback request arrives on the session s with the state st and is
\* not turned away for an `error` parameter.
CallbackArrives(s, st) ==
    /\ last'.route = CallbackRoute
    /\ last'.sid = s
    /\ last'.qstate = st
    /\ last'.why \in {"exchanging", "state_mismatch"}

\* C34: a state that GET /auth/spotify generated is accepted by the
\* callback at most once.  While a callback that passed the check with the
\* state is still waiting for the provider, and after it has been answered,
\* another callback on the same session with the same state is answered
\* invalid_state, unless GET /auth/spotify has stored a state again.
C34_StateAcceptedAtMostOnce ==
    [][/\ \A r \in BagToSet(reqs) :
            r.kind = "callback" /\ r.state \in OAuthStates
                /\ CallbackArrives(r.sid, r.state) =>
              last'.why = "state_mismatch"
       /\ \A r \in BagToSet(reqs) :
            r.kind = "callback" /\ r.state \in OAuthStates /\ Answered(r) =>
              sessions'[r.sid].oauthState /= r.state]_vars

\* The part of C34 that holds: once the first callback has been answered,
\* the session holds no pending state, and a callback with a state is let
\* through only if the session holds that state.
C34_AnsweredCallbackConsumesState ==
    [][/\ \A r \in BagToSet(reqs) :
            r.kind = "callback" /\ r.state \in OAuthStates /\ Answered(r) =>
              sessions'[r.sid].oauthState = "none"
       /\ \A s \in Sids, st \in OAuthStates :
            CallbackArrives(s, st) /\ sessions[s].oauthState /= st =>
              last'.why = "state_mismatch"]_vars

\* Two callbacks with the same state are waiting for the provider.
C34_TwoAccepted ==
    \E r \in BagToSet(reqs) :
        r.kind = "callback" /\ r.state \in OAuthStates /\ reqs[r] = 2

\* C35: a GET /api/artists response says cached: true only when its list
\* was read from a valid cache and the request made no refresh; a response
\* whose request ran refreshCache says cached: false, and so does every
\* response with source 'personal'.
C35_CachedOnlyWhenServedFromCache ==
    last.route = ArtistsRoute /\ last.status = 200 =>
        /\ last.cached =>
             last.source = "global" /\ last.why \in {"cache", "fallback_cache"}
        /\ last.why \in {"refreshed", "refresh_failed"} => ~last.cached
        /\ last.source = "personal" => ~last.cached

\* The part of C35 that holds: cached is true exactly when the source is
\* 'global' and the cache is valid when the response is written.
C35_CachedIsGlobalAndValidNow ==
    last.route = ArtistsRoute /\ last.status = 200 =>
        last.cached = (last.source = "global" /\ CacheFresh)

\* A response whose request fetched its list from the provider says
\* cached: true.
C35_FreshListSaysCached ==
    /\ last.route = ArtistsRoute
    /\ last.why = "refreshed"
    /\ last.fetched /= <<>>
    /\ last.cached

\* A refreshCache call has returned without a list from the provider: its
\* token acquisition or its fetch failed, or the fetch brought no artists.
RefreshFellBack == last'.why \in {"refresh_failed", "no_artists"}

\* The list in the artist cache, expired or not; the empty list if the
\* file gives none.
PreviousList == IF CacheUnreadable THEN <<>> ELSE CacheList

\* C36: a refreshCache whose token acquisition or fetch fails, or whose
\* fetch brings no artists, leaves the cache file as it is and returns the
\* list the file holds (the empty list if it holds none); the cache file is
\* changed only by a refresh that got a list with at least one artist, so
\* an empty list is never written; and every refreshCache call returns a
\* list: the GET /api/artists that waited for it is answered 200.
C36_FailedRefreshKeepsCache ==
    [][/\ RefreshFellBack =>
            /\ cacheFile' = cacheFile
            /\ last'.artists = PreviousList
            /\ last'.fetched = <<>>
            /\ last'.route = ArtistsRoute => last'.status = 200
       /\ \A r \in BagToSet(reqs) :
            r.kind \in RefreshKinds /\ Answered(r) =>
              /\ last'.status = 200
              /\ RefreshFellBack \/ last'.why = "refreshed"
       /\ cacheFile' /= cacheFile /\ last'.route = ArtistsRoute =>
            /\ last'.why = "refreshed"
            /\ last'.fetched /= <<>>
            /\ cacheFile'.text.artists /= <<>>]_vars

\* The provider brought no artists, and the request was answered with the
\* expired list of the cache file, which was left as it was.
C36_Witness ==
    /\ last.route = ArtistsRoute
    /\ last.why = "no_artists"
    /\ last.status = 200
    /\ last.artists = OldList
    /\ ~CacheFresh

\* The token acquisition failed on a server without a cache file, and the
\* request was answered with the empty list.
C36_EmptyFallback ==
    /\ last.route = ArtistsRoute
    /\ last.why = "refresh_failed"
    /\ last.artists = <<>>
    /\ cacheFile = NoCacheFile

\* C37: in every stored session the provider token bundle is whole or
\* absent: spotifyToken, refreshToken and tokenExpiry are all present or
\* all absent, after every sequence of callbacks, provider logouts and GET
\* /api/artists requests (the fallback after a failed personal fetch
\* included).
C37_TokenBundleAllOrNothing ==
    \A s \in Sids :
        \/ /\ sessions[s].spotifyToken /= 0
           /\ sessions[s].refreshToken /= 0
           /\ sessions[s].tokenExpiry /= 0
        \/ /\ sessions[s].spotifyToken = 0
           /\ sessions[s].refreshToken = 0
           /\ sessions[s].tokenExpiry = 0

\* The part of C37 that holds: a session with an access token has the
\* refresh token and the expiry that came with it.
C37_AccessTokenHasItsBundle ==
    \A s \in Sids :
        sessions[s].spotifyToken /= 0 =>
            sessions[s].refreshToken /= 0 /\ sessions[s].tokenExpiry /= 0

\* A failed personal fetch has left a refresh token without access token.
C37_OrphanedRefreshToken ==
    /\ last.route = ArtistsRoute
    /\ last.status = 200
    /\ sessions[last.sid].spotifyToken = 0
    /\ sessions[last.sid].refreshToken = ProviderSession.refreshToken

\* The session holds a local user or a provider access token.
Authenticated(sess) == sess.user /= NoUser \/ sess.spotifyToken /= 0

\* The step is a successful register, login or provider callback on the
\* session s.
SignedInStep(s) ==
    /\ last'.sid = s
    /\ last'.route \in SignInRoutes
    /\ last'.why \in {"created", "signed_in", "auth_success"}

\* C38: a session that holds a local user or a provider token also holds a
\* user-agent hash, and the hash is that of the user-agent of the most
\* recent successful register, login or callback on the session: such a
\* request leaves its own user-agent's hash in the session, and no other
\* step replaces a hash by a different one in a session that is then
\* authenticated.
C38_AuthenticatedSessionHoldsLatestUA ==
    [][\A s \in Sids :
          Authenticated(sessions'[s]) =>
             /\ sessions'[s].ua /= "none"
             /\ SignedInStep(s) => sessions'[s].ua = HashUA(last'.ua)
             /\ ~SignedInStep(s) /\ sessions[s].ua /= "none"
                   => sessions'[s].ua = sessions[s].ua]_vars

\* The part of C38 that holds: an authenticated session holds a user-agent
\* hash, and a successful register, login or callback that writes the
\* session leaves the hash of its own user-agent in it.
C38_AuthenticatedSessionHoldsUA ==
    [][\A s \in Sids :
          Authenticated(sessions'[s]) =>
             /\ sessions'[s].ua /= "none"
             /\ SignedInStep(s) /\ sessions'[s] /= sessions[s]
                   => sessions'[s].ua = HashUA(last'.ua)]_vars

\* A failed callback of Firefox has written its copy of the session, user
\* and user-agent hash included, over a session signed in from Chrome.
C38_OlderHashWrittenBack ==
    /\ last.route = CallbackRoute
    /\ last.why = "exchange_failed"
    /\ last.ua = "Firefox"
    /\ raced
    /\ sessions["s1"].user /= NoUser
    /\ sessions["s1"].ua = HashUA("Firefox")
    /\ users = TwoUsers

\* The step is a register or login request that its handler refused.
RefusedStep(step) ==
    \/ /\ step.route = "POST /api/auth/register"
       /\ step.status \in {400, 403, 409}
    \/ /\ step.route = "POST /api/auth/login"
       /\ step.status = 401
       /\ step.why /= "ua_mismatch"

\* C39: a register request answered 400, 403 or 409 and a login request
\* answered 401 by its handler leave the users table and every stored
\* session as they were: no row is created, and user, ua and the provider
\* fields of the request's session keep their values.
C39_RefusalsChangeNothing ==
    [][RefusedStep(last') => users' = users /\ sessions' = sessions]_vars

\* C39 witness: a login with a wrong password was refused on a session
\* that holds a user, a user-agent hash and a provider bundle, after a
\* register that created a row.
C39_Witness ==
    /\ RefusedStep(last)
    /\ last.why = "bad_password"
    /\ sessions[last.sid].user /= NoUser
    /\ sessions[last.sid].ua = HashUA("Firefox")
    /\ sessions[last.sid].spotifyToken /= 0
    /\ Len(users) = 3

\* Each kind of refusal happens: 400, 403 and 409 of register.
C39_RegisterRefusedDuplicate ==
    /\ RefusedStep(last)
    /\ last.status = 409
    /\ sessions[last.sid].user /= NoUser

\* The step answers a GET /api/artists request.
ArtistsAnswered == last'.route = ArtistsRoute /\ last'.status /= 0

\* C40: with a provider that answers every call, every GET /api/artists
\* request gets exactly one response in the end (a request leaves the
\* suspended ones with its response and in no other way, and no request
\* stays suspended for ever), and every refreshCache run ends, after at
\* most one token exchange and one getTopArtists run of at most 8 genre
\* searches, one search by year and one detail batch.
C40_RequestsAnsweredRefreshBounded ==
    /\ [][/\ ArtistsAnswered
             => \/ reqs = EmptyBag /\ reqs' = reqs
                \/ \E r \in BagToSet(reqs) :
                      r.sid = last'.sid /\ Answered(r)
          /\ Inflight' < Inflight => ArtistsAnswered
          /\ \A c \in Callers :
               /\ calls'[c] /= 0 /\ calls'[c] /= calls[c]
                    => /\ ~RefreshOf(c)
                       /\ exchanges' = exchanges + 1
               /\ refresh'[c] /\ ~refresh[c]
                    => /\ fetches' = fetches + 1
                       /\ calls'[c] = 0
               /\ refresh[c] /\ ~refresh'[c]
                    => /\ ~RefreshOf(c)'
                       /\ last'.arg >= NumGenres
                       /\ last'.arg <= NumGenres + 1 + 1]_vars
    /\ (Inflight > 0) ~> (Inflight = 0)
    /\ \A c \in Callers : RefreshOf(c) ~> ~RefreshOf(c)

\* C40 witness: a request whose personal fetch failed has been answered
\* after a refresh that took the full number of provider calls.
C40_Witness ==
    /\ last.route = ArtistsRoute
    /\ last.status = 200
    /\ last.arg = NumGenres + 1 + 1
    /\ sessions[last.sid].spotifyToken = 0
    /\ sessions[last.sid].refreshToken /= 0
    /\ exchanges > 0
    /\ reqs = EmptyBag

====
